---- MODULE Spec2Model ----
(***************************************************************************)
(* Model of the changelog and findbuild packages                           *)
(* (src/src/pkg/changelog/changelog.go, src/src/pkg/findbuild/findbuild.go)*)
(*                                                                         *)
(* Three state machines share this module:                                 *)
(*   SpecChangelog  - Changelog() with its two additions() goroutines and  *)
(*                    their per-repository commits() tasks;                *)
(*   SpecLocate     - getCLData() against a Gerrit instance;               *)
(*   SpecFindBuild  - FindBuild() with the per-manifest manifestData()     *)
(*                    tasks of getRepoData().                              *)
(***************************************************************************)
EXTENDS Integers, Sequences, FiniteSets, TLC

(***************************************************************************)
(* Bounds of the model.                                                    *)
(***************************************************************************)
\* Commits of a repository are numbered 1..NCommits, parents before children.
NCommits == 3
\* The log endpoint never puts more than ServerPageCap commits on one page,
\* so that a log of NCommits commits takes a third request.
ServerPageCap == 1

(***************************************************************************)
(* Program constants.                                                      *)
(***************************************************************************)
defaultPageSize == 1000
pageSizeGrowthMultiplier == 5
maxPageSize == 10000

(***************************************************************************)
(* Generic helpers.                                                        *)
(***************************************************************************)
Min(a, b) == IF a < b THEN a ELSE b

SetMax(S) == CHOOSE x \in S : \A y \in S : y <= x

Range(s) == {s[k] : k \in 1..Len(s)}

\* Go map assignment m[k] = v.
MapPut(m, k, v) == [x \in (DOMAIN m) \cup {k} |-> IF x = k THEN v ELSE m[x]]

EmptyMap == [x \in {} |-> 0]

\* The error value nil.
NoErr == [kind |-> "nil"]

(***************************************************************************)
(* Strings that the code edits are sequences of tokens, e.g. the URL       *)
(* "https://u1" is <<"https://", "u1">>.                                   *)
(***************************************************************************)
RECURSIVE IndexOf(_, _, _)
IndexOf(s, tok, from) ==
    IF from > Len(s) THEN 0
    ELSE IF s[from] = tok THEN from
    ELSE IndexOf(s, tok, from + 1)

\* strings.Replace(s, tok, "", 1): the first occurrence of tok is removed.
ReplaceFirst(s, tok) ==
    LET k == IndexOf(s, tok, 1)
    IN  IF k = 0 THEN s
        ELSE SubSeq(s, 1, k - 1) \o SubSeq(s, k + 1, Len(s))

(***************************************************************************)
(* The remote git host: commit graphs and the log endpoint.                *)
(***************************************************************************)
RepoSeq == <<"r1", "r2">>

Repos == Range(RepoSeq)

Commits == 1..NCommits

\* r1 has a history with branches and merges: 1 is the root, 2 and 3 are
\* children of 1, 4 merges 3 and 2, 5 and 6 are children of 4, ...
\* r2 has a linear history.
Parents(repo, c) ==
    IF c <= 1 THEN {}
    ELSE IF repo = "r2" THEN {c - 1}
    ELSE IF c % 3 = 2 THEN {c - 1}
    ELSE IF c % 3 = 0 THEN {c - 2}
    ELSE {c - 1, c - 2}

\* Commits reachable from committish c (c itself included); the empty
\* committish 0 reaches nothing.
RECURSIVE Reach(_, _)
Reach(repo, c) ==
    IF c = 0 THEN {}
    ELSE {c} \cup UNION {Reach(repo, p) : p \in Parents(repo, c)}

RECURSIVE NewestFirst(_)
NewestFirst(S) ==
    IF S = {} THEN <<>>
    ELSE LET m == SetMax(S) IN <<m>> \o NewestFirst(S \ {m})

\* A raw git.Commit as the log endpoint returns it.
GitCommit(c, hasCommitter) == [Id |-> c, Committer |-> hasCommitter]

\* The whole log of committish excluding the ancestors of ancestor, newest
\* first (the answer of a single call of unlimited page size). A corrupt
\* server answer carries a newest commit without committer.
FullLog(repo, committish, ancestor, corrupt) ==
    LET ids == NewestFirst(Reach(repo, committish) \ Reach(repo, ancestor))
    IN  [k \in 1..Len(ids) |-> GitCommit(ids[k], ~(corrupt /\ k = 1))]

\* One Log call: a page of at most pageSize commits starting after pageToken
\* (0 is the empty token), and the continuation token ("" is 0).
GitilesLog(repo, committish, ancestor, pageSize, pageToken, corrupt) ==
    LET full == FullLog(repo, committish, ancestor, corrupt)
        n    == Min(Min(pageSize, ServerPageCap), Len(full) - pageToken)
    IN  [Log           |-> SubSeq(full, pageToken + 1, pageToken + n),
         NextPageToken |-> IF pageToken + n < Len(full) THEN pageToken + n ELSE 0]

(***************************************************************************)
(* changelog.go: parsed commits and the paged log fetcher.                 *)
(***************************************************************************)
\* ParseGitCommitLog turns raw commits into Commit records and rejects a
\* commit that has no committer.
ParseGitCommitLog(rawCommits) ==
    IF \E k \in 1..Len(rawCommits) : ~rawCommits[k].Committer
    THEN [Commits |-> <<>>, Err |-> [kind |-> "parse"]]
    ELSE [Commits |-> [k \in 1..Len(rawCommits) |-> [SHA |-> rawCommits[k].Id]],
          Err     |-> NoErr]

\* The faults a per-repository log task can meet: none, a failure of the
\* first Log call, a failure of a later Log call, a log that does not parse.
Faults == {"none", "first", "later", "corrupt"}

commitsErr(kind, repo, committish, ancestor) ==
    [RepoURL |-> "", Commits |-> <<>>,
     Err |-> [kind |-> kind, repo |-> repo, committish |-> committish,
              ancestor |-> ancestor]]

\* Mutant: the loop asks for one more page and stops.
commitsLoopOnce(repo, committish, ancestor, token, pageSize, allCommits, sizes, fault) ==
    IF token = 0
    THEN [failed |-> FALSE, allCommits |-> allCommits, sizes |-> sizes]
    ELSE LET response == GitilesLog(repo, committish, ancestor, pageSize, token, FALSE)
         IN  [failed |-> fault = "later",
              allCommits |-> allCommits \o response.Log,
              sizes |-> Append(sizes, pageSize)]

\* The loop of commits(): follows the continuation tokens, growing pageSize.
\* Yields the accumulated raw commits and the page sizes requested, or
\* failed when a Log call of the loop fails.
RECURSIVE commitsLoop(_, _, _, _, _, _, _, _)
commitsLoop(repo, committish, ancestor, token, pageSize, allCommits, sizes, fault) ==
    IF token = 0
    THEN [failed |-> FALSE, allCommits |-> allCommits, sizes |-> sizes]
    ELSE LET grown == IF pageSize < maxPageSize
                      THEN pageSize * pageSizeGrowthMultiplier
                      ELSE pageSize
         IN  IF fault = "later"
             THEN [failed |-> TRUE, allCommits |-> allCommits,
                   sizes |-> Append(sizes, grown)]
             ELSE LET response == GitilesLog(repo, committish, ancestor, grown,
                                             token, fault = "corrupt")
                  IN  commitsLoop(repo, committish, ancestor,
                                  response.NextPageToken, grown,
                                  allCommits \o response.Log,
                                  Append(sizes, grown), fault)

\* The raw fetch of commits(): first call, then the loop.
commitsFetch(repo, committish, ancestor, fault) ==
    IF fault = "first"
    THEN [failed |-> TRUE, allCommits |-> <<>>, sizes |-> <<defaultPageSize>>]
    ELSE LET response == GitilesLog(repo, committish, ancestor, defaultPageSize,
                                    0, fault = "corrupt")
         IN  commitsLoop(repo, committish, ancestor, response.NextPageToken,
                         defaultPageSize, response.Log, <<defaultPageSize>>, fault)

\* Mutant: the request leaves ExcludeAncestorsOf empty.
commitsNoAncestor(repo, committish, ancestor, fault) ==
    LET fetched == commitsFetch(repo, committish, 0, fault)
        parsed  == ParseGitCommitLog(fetched.allCommits)
    IN  IF fetched.failed
        THEN commitsErr("retrieve", repo, committish, ancestor)
        ELSE IF parsed.Err # NoErr
        THEN commitsErr("parse", repo, committish, ancestor)
        ELSE [RepoURL |-> repo, Commits |-> parsed.Commits, Err |-> NoErr]

\* Mutant: after a failed request the commits retrieved so far are sent
\* along with the error.
commitsPartial(repo, committish, ancestor, fault) ==
    LET fetched == commitsFetch(repo, committish, ancestor, fault)
        parsed  == ParseGitCommitLog(fetched.allCommits)
    IN  IF fetched.failed
        THEN [RepoURL |-> repo, Commits |-> parsed.Commits,
              Err |-> commitsErr("retrieve", repo, committish, ancestor).Err]
        ELSE IF parsed.Err # NoErr
        THEN commitsErr("parse", repo, committish, ancestor)
        ELSE [RepoURL |-> repo, Commits |-> parsed.Commits, Err |-> NoErr]

\* commits(): the commitsResult the task sends on outputChan.
commits(repo, committish, ancestor, fault) ==
    LET fetched == commitsFetch(repo, committish, ancestor, fault)
        parsed  == ParseGitCommitLog(fetched.allCommits)
    IN  IF fetched.failed
        THEN commitsErr("retrieve", repo, committish, ancestor)
        ELSE IF parsed.Err # NoErr
        THEN commitsErr("parse", repo, committish, ancestor)
        ELSE [RepoURL |-> repo, Commits |-> parsed.Commits, Err |-> NoErr]

(***************************************************************************)
(* changelog.go: the manifest parser.                                      *)
(* A document is [wellFormed, hasRoot, remote, default, project]; remote,  *)
(* default and project are the sequences of the root's child elements of   *)
(* that tag, each element a function from its attribute names to values.   *)
(***************************************************************************)
HasAttr(e, a) == a \in DOMAIN e

\* etree SelectAttrValue(a, dflt).
SelectAttrValue(e, a, dflt) == IF HasAttr(e, a) THEN e[a] ELSE dflt

\* Go map read m[k] on a map of strings: the empty string when k is absent.
MapGetStr(m, k) == IF k \in DOMAIN m THEN m[k] ELSE <<>>

\* Lines 115-119: name -> fetch URL without its first "https://".
RECURSIVE remoteMapOf(_, _)
remoteMapOf(remotes, n) ==
    IF n = 0 THEN EmptyMap
    ELSE MapPut(remoteMapOf(remotes, n - 1), remotes[n]["name"],
                ReplaceFirst(remotes[n]["fetch"], "https://"))

\* Mutant: every project is given the URL of the default remote.
RECURSIVE reposOfDefault(_, _, _)
reposOfDefault(projects, remoteMap, n) ==
    IF n = 0 THEN EmptyMap
    ELSE MapPut(reposOfDefault(projects, remoteMap, n - 1), projects[n]["name"],
                [InstanceURL |-> MapGetStr(remoteMap, ""),
                 Committish  |-> projects[n]["revision"]])

\* Lines 126-132: name -> repo{InstanceURL, Committish}.
RECURSIVE reposOf(_, _, _)
reposOf(projects, remoteMap, n) ==
    IF n = 0 THEN EmptyMap
    ELSE MapPut(reposOf(projects, remoteMap, n - 1), projects[n]["name"],
                [InstanceURL |-> MapGetStr(remoteMap,
                                           SelectAttrValue(projects[n], "remote", "")),
                 Committish  |-> projects[n]["revision"]])

\* The dereferences of repoMap that hit a nil pointer.
repoMapPanics(doc) ==
    \/ ~doc.hasRoot
    \/ \E k \in 1..Len(doc.remote) :
          ~HasAttr(doc.remote[k], "fetch") \/ ~HasAttr(doc.remote[k], "name")
    \/ doc.default = <<>>
    \/ ~HasAttr(doc.default[1], "remote")
    \/ \E k \in 1..Len(doc.project) :
          ~HasAttr(doc.project[k], "name") \/ ~HasAttr(doc.project[k], "revision")

repoMap(doc) ==
    IF ~doc.wellFormed THEN [outcome |-> "error", repos |-> EmptyMap]
    ELSE IF repoMapPanics(doc) THEN [outcome |-> "panic", repos |-> EmptyMap]
    ELSE LET named     == remoteMapOf(doc.remote, Len(doc.remote))
             remoteMap == MapPut(named, "",
                                 MapGetStr(named, doc.default[1]["remote"]))
         IN  [outcome |-> "ok",
              repos   |-> reposOf(doc.project, remoteMap, Len(doc.project))]

(***************************************************************************)
(* The manifest repository seen by Changelog: one build per way of pinning *)
(* the repositories; build number b pins repository r at commit b[r], and  *)
(* leaves r out of the manifest when b[r] = 0.                             *)
(***************************************************************************)
BuildNums == [Repos -> 0..NCommits]

\* The URL of the manifest host, also the default remote of every manifest.
host == <<"u1">>

ManifestRemotes ==
    << [name |-> "cos", fetch |-> <<"https://", "u1">>],
       [name |-> "aux", fetch |-> <<"https://", "u2">>] >>

\* r1 uses the default remote, r2 names its remote.
ProjectElement(r, revision) ==
    IF r = "r1" THEN [name |-> r, revision |-> revision]
    ELSE [name |-> r, remote |-> "aux", revision |-> revision]

RECURSIVE ProjectElements(_, _)
ProjectElements(b, n) ==
    IF n = 0 THEN <<>>
    ELSE ProjectElements(b, n - 1) \o
         (IF b[RepoSeq[n]] = 0 THEN <<>>
          ELSE <<ProjectElement(RepoSeq[n], b[RepoSeq[n]])>>)

\* snapshot.xml at refs/tags/<buildNum>.
ManifestDoc(buildNum) ==
    [wellFormed |-> TRUE, hasRoot |-> TRUE,
     remote  |-> ManifestRemotes,
     default |-> << [remote |-> "cos"] >>,
     project |-> ProjectElements(buildNum, Len(RepoSeq))]

VARIABLES
    \* Changelog
    sourceBuildNum, targetBuildNum,   \* the arguments of the running call
    callNo,                           \* 1: Changelog(S,T); 2: Changelog(T,S) after it
    prevRet,                          \* what call 1 returned
    clPc,                             \* position of Changelog
    clients,                          \* URLs that have a client
    sourceRepos, targetRepos,         \* parsed manifests
    err,                              \* Changelog's local variable err
    addRes,                           \* Changelog's local variable addRes
    clRet,                            \* what Changelog returned
    adPc,                             \* per direction: position of additions()
    pending,                          \* per direction: commits() tasks still running
    commitsChan,                      \* per direction: buffered channel
    adI,                              \* per direction: loop counter i
    repoCommits,                      \* per direction: map built by additions()
    outChan,                          \* addChan and missChan
    failedTasks                       \* history: tasks that sent an error

clVars == <<sourceBuildNum, targetBuildNum, callNo, prevRet, clPc, clients,
            sourceRepos, targetRepos, err, addRes, clRet, adPc, pending,
            commitsChan, adI, repoCommits, outChan, failedTasks>>

VARIABLES
    \* FindBuild
    request,          \* the argument of FindBuild
    gerritMatches,    \* Gerrit: the changes that match request.CL, in Gerrit's order
    manifestOf,       \* manifest repository: what the manifest of each build holds
    fbPc,             \* position of FindBuild
    gerritQuery,      \* the ChangeQueryParams sent to Gerrit
    clRes,            \* what getCLData returned
    buildNums,        \* getRepoData's local variable buildNums
    running,          \* manifestData() tasks still running
    shaChan,          \* buffered channel of getRepoData
    grI,              \* loop counter i of getRepoData
    output,           \* getRepoData's local variable output
    sourceOrder, targetOrder,
    fbRet             \* what FindBuild returned

fbVars == <<request, gerritMatches, manifestOf, fbPc, gerritQuery, clRes, buildNums,
            running, shaChan, grI, output, sourceOrder, targetOrder, fbRet>>

VARIABLES
    call              \* a function of the packages called on its own: its name,
                      \* its arguments and, once it has returned, its result

VARIABLES
    cancelled         \* the caller has cancelled the top-level request

vars == <<clVars, fbVars, call, cancelled>>

\* No function is called on its own.
callIdle == call = [fn |-> "none", pc |-> "idle"]

\* Line 363: repoData{Candidates: map[string]string{}}; "" is <<>> for a URL
\* and 0 for a SHA.
emptyRepoData ==
    [RemoteURL |-> <<>>, TargetSHA |-> 0, SourceSHA |-> 0, Candidates |-> EmptyMap]

\* FindBuild is not running.
fbParked ==
    /\ request = "nil" /\ gerritMatches = <<>> /\ manifestOf = <<>>
    /\ fbPc = "parked" /\ gerritQuery = [N |-> 0] /\ clRes = [err |-> NoErr]
    /\ buildNums = <<>> /\ running = {} /\ shaChan = <<>> /\ grI = 0
    /\ output = emptyRepoData /\ sourceOrder = 0 /\ targetOrder = 0
    /\ fbRet = [err |-> NoErr]

Dirs == {"add", "miss"}

\* A nil map, as distinct from an empty one.
NilMap == [nil |-> TRUE]

\* Mutant: both directions are given the source manifest as sourceRepos.
dirSourceSame(d) == sourceRepos

\* Lines 299-300: the sourceRepos and targetRepos arguments of each direction.
dirSource(d) == IF d = "add" THEN sourceRepos ELSE targetRepos

\* Mutant: both directions are given the target manifest as targetRepos.
dirTargetSame(d) == targetRepos

dirTarget(d) == IF d = "add" THEN targetRepos ELSE sourceRepos

\* Mutant: the source manifest is never consulted.
ancestorCommittishNone(srcRepos, repoURL) == 0

\* Lines 226-229.
ancestorCommittish(srcRepos, repoURL) ==
    IF repoURL \in DOMAIN srcRepos THEN srcRepos[repoURL].Committish ELSE 0

\* Mutant: an empty commit list is stored too.
storeCommitsAlways(m, res) == MapPut(m, res.RepoURL, res.Commits)

\* Lines 238-240.
storeCommits(m, res) ==
    IF Len(res.Commits) > 0 THEN MapPut(m, res.RepoURL, res.Commits) ELSE m

\* Line 234: the test of a task's result.
commitsFailed(res) == res.Err # NoErr

\* Mutant: the result of a direction is never taken as a failure.
directionFailedNever(res) == FALSE

\* Lines 302 and 306: the test of a direction's result.
directionFailed(res) == res.Err # NoErr

\* Mutant: the URLs that have no client yet are skipped.
createClientsNone(cls, repos) == cls

\* Lines 88-101 without failure: every InstanceURL gets a client.
createClients(cls, repos) == cls \cup {repos[r].InstanceURL : r \in DOMAIN repos}

\* Line 222: make(chan commitsResult, len(targetRepos)).
commitsChanCap(d) == Cardinality(DOMAIN dirTarget(d))

\* Lines 297-298: make(chan additionsResult, 1).
outChanCap == 1

SetupFaults == {"none", "client", "source", "target", "sourceClients", "targetClients"}

clIdle ==
    /\ clients = {} /\ sourceRepos = EmptyMap /\ targetRepos = EmptyMap
    /\ err = NoErr /\ addRes = [Additions |-> NilMap, Err |-> NoErr]
    /\ clRet = [additions |-> NilMap, removals |-> NilMap, err |-> NoErr]
    /\ adPc = [d \in Dirs |-> "idle"]
    /\ pending = [d \in Dirs |-> {}]
    /\ commitsChan = [d \in Dirs |-> <<>>]
    /\ adI = [d \in Dirs |-> 0]
    /\ repoCommits = [d \in Dirs |-> EmptyMap]
    /\ outChan = [d \in Dirs |-> <<>>]
    /\ failedTasks = {}

InitChangelog ==
    /\ cancelled = FALSE
    /\ sourceBuildNum \in BuildNums
    /\ targetBuildNum \in BuildNums
    /\ callNo = 1
    /\ prevRet = [additions |-> NilMap, removals |-> NilMap, err |-> NoErr]
    /\ clPc = "start"
    /\ clIdle
    /\ fbParked
    /\ callIdle

clFail(kind, cause) ==
    /\ clRet' = [additions |-> NilMap, removals |-> NilMap,
                 err |-> [kind |-> kind, cause |-> cause]]
    /\ clPc' = "done"

\* Lines 268-300: clients, manifests, and the start of both directions.
ChangelogSetup ==
    /\ clPc = "start"
    /\ \E fault \in SetupFaults :
         LET src == repoMap(ManifestDoc(sourceBuildNum))
             tgt == repoMap(ManifestDoc(targetBuildNum))
         IN  IF fault # "none"
             THEN /\ clFail(fault, [kind |-> fault])
                  /\ UNCHANGED <<clients, sourceRepos, targetRepos, err, adPc>>
             ELSE IF src.outcome # "ok" \/ tgt.outcome # "ok"
             THEN /\ clPc' = "panic"
                  /\ UNCHANGED <<clients, sourceRepos, targetRepos, err, adPc, clRet>>
             ELSE /\ sourceRepos' = src.repos
                  /\ targetRepos' = tgt.repos
                  /\ clients' = createClients(createClients({host}, src.repos), tgt.repos)
                  /\ err' = NoErr
                  /\ adPc' = [d \in Dirs |-> "spawn"]
                  /\ clPc' = "recvAdd"
                  /\ UNCHANGED clRet
    /\ UNCHANGED <<sourceBuildNum, targetBuildNum, callNo, prevRet, addRes, pending,
                   commitsChan, adI, repoCommits, outChan, failedTasks>>
    /\ UNCHANGED <<fbVars, call, cancelled>>

\* Lines 220-231: additions() starts one commits() task per target repository.
additionsSpawn(d) ==
    /\ adPc[d] = "spawn"
    /\ pending' = [pending EXCEPT ![d] = DOMAIN dirTarget(d)]
    /\ adPc' = [adPc EXCEPT ![d] = "recv"]
    /\ UNCHANGED <<sourceBuildNum, targetBuildNum, callNo, prevRet, clPc, clients,
                   sourceRepos, targetRepos, err, addRes, clRet, commitsChan, adI,
                   repoCommits, outChan, failedTasks>>
    /\ UNCHANGED <<fbVars, call, cancelled>>

\* Mutant: a task whose log request or parse fails returns without sending.
commitsTaskSilent(d, repoURL) ==
    /\ repoURL \in pending[d]
    /\ Len(commitsChan[d]) < commitsChanCap(d)
    /\ \E fault \in Faults :
         LET res == commits(repoURL, dirTarget(d)[repoURL].Committish,
                            ancestorCommittish(dirSource(d), repoURL), fault)
         IN  /\ commitsChan' = IF res.Err # NoErr THEN commitsChan
                               ELSE [commitsChan EXCEPT ![d] = Append(@, res)]
             /\ failedTasks' = IF res.Err # NoErr
                               THEN failedTasks \cup {<<callNo, d, repoURL>>}
                               ELSE failedTasks
    /\ pending' = [pending EXCEPT ![d] = @ \ {repoURL}]
    /\ UNCHANGED <<sourceBuildNum, targetBuildNum, callNo, prevRet, clPc, clients,
                   sourceRepos, targetRepos, err, addRes, clRet, adPc, adI,
                   repoCommits, outChan>>
    /\ UNCHANGED <<fbVars, call, cancelled>>

\* Lines 158-215: one commits() task runs and sends its result.
commitsTask(d, repoURL) ==
    /\ repoURL \in pending[d]
    /\ Len(commitsChan[d]) < commitsChanCap(d)
    /\ \E fault \in Faults :
         LET res == commits(repoURL, dirTarget(d)[repoURL].Committish,
                            ancestorCommittish(dirSource(d), repoURL), fault)
         IN  /\ commitsChan' = [commitsChan EXCEPT ![d] = Append(@, res)]
             /\ failedTasks' = IF res.Err # NoErr
                               THEN failedTasks \cup {<<callNo, d, repoURL>>}
                               ELSE failedTasks
    /\ pending' = [pending EXCEPT ![d] = @ \ {repoURL}]
    /\ UNCHANGED <<sourceBuildNum, targetBuildNum, callNo, prevRet, clPc, clients,
                   sourceRepos, targetRepos, err, addRes, clRet, adPc, adI,
                   repoCommits, outChan>>
    /\ UNCHANGED <<fbVars, call, cancelled>>

\* Lines 232-241: one iteration of the receive loop of additions().
additionsRecv(d) ==
    /\ adPc[d] = "recv"
    /\ adI[d] < Cardinality(DOMAIN dirTarget(d))
    /\ commitsChan[d] # <<>>
    /\ LET res == Head(commitsChan[d])
       IN  IF commitsFailed(res)
           THEN /\ Len(outChan[d]) < outChanCap
                /\ outChan' = [outChan EXCEPT ![d] =
                                 Append(@, [Additions |-> NilMap, Err |-> res.Err])]
                /\ adPc' = [adPc EXCEPT ![d] = "done"]
                /\ UNCHANGED <<adI, repoCommits>>
           ELSE /\ repoCommits' = [repoCommits EXCEPT ![d] = storeCommits(@, res)]
                /\ adI' = [adI EXCEPT ![d] = @ + 1]
                /\ UNCHANGED <<outChan, adPc>>
    /\ commitsChan' = [commitsChan EXCEPT ![d] = Tail(@)]
    /\ UNCHANGED <<sourceBuildNum, targetBuildNum, callNo, prevRet, clPc, clients,
                   sourceRepos, targetRepos, err, addRes, clRet, pending, failedTasks>>
    /\ UNCHANGED <<fbVars, call, cancelled>>

\* Lines 242-243: the loop is over, additions() sends its map.
additionsReturn(d) ==
    /\ adPc[d] = "recv"
    /\ adI[d] = Cardinality(DOMAIN dirTarget(d))
    /\ Len(outChan[d]) < outChanCap
    /\ outChan' = [outChan EXCEPT ![d] =
                     Append(@, [Additions |-> repoCommits[d], Err |-> NoErr])]
    /\ adPc' = [adPc EXCEPT ![d] = "done"]
    /\ UNCHANGED <<sourceBuildNum, targetBuildNum, callNo, prevRet, clPc, clients,
                   sourceRepos, targetRepos, err, addRes, clRet, pending,
                   commitsChan, adI, repoCommits, failedTasks>>
    /\ UNCHANGED <<fbVars, call, cancelled>>

\* Lines 301-304.
ChangelogRecvAdd ==
    /\ clPc = "recvAdd"
    /\ outChan["add"] # <<>>
    /\ addRes' = Head(outChan["add"])
    /\ outChan' = [outChan EXCEPT !["add"] = Tail(@)]
    /\ IF directionFailed(Head(outChan["add"]))
       THEN clFail("additions", err)
       ELSE clPc' = "recvMiss" /\ UNCHANGED clRet
    /\ UNCHANGED <<sourceBuildNum, targetBuildNum, callNo, prevRet, clients,
                   sourceRepos, targetRepos, err, adPc, pending, commitsChan, adI,
                   repoCommits, failedTasks>>
    /\ UNCHANGED <<fbVars, call, cancelled>>

\* Lines 305-310.
ChangelogRecvMiss ==
    /\ clPc = "recvMiss"
    /\ outChan["miss"] # <<>>
    /\ outChan' = [outChan EXCEPT !["miss"] = Tail(@)]
    /\ LET missRes == Head(outChan["miss"])
       IN  IF directionFailed(missRes)
           THEN clFail("missed", err)
           ELSE /\ clRet' = [additions |-> addRes.Additions,
                             removals  |-> missRes.Additions, err |-> NoErr]
                /\ clPc' = "done"
    /\ UNCHANGED <<sourceBuildNum, targetBuildNum, callNo, prevRet, clients,
                   sourceRepos, targetRepos, err, addRes, adPc, pending,
                   commitsChan, adI, repoCommits, failedTasks>>
    /\ UNCHANGED <<fbVars, call, cancelled>>

\* The caller asks for the opposite changelog once the first has succeeded.
SecondCall ==
    /\ clPc = "done" /\ callNo = 1 /\ clRet.err = NoErr
    /\ cancelled = FALSE
    /\ sourceBuildNum' = targetBuildNum
    /\ targetBuildNum' = sourceBuildNum
    /\ callNo' = 2
    /\ prevRet' = clRet
    /\ clPc' = "start"
    /\ clients' = {} /\ sourceRepos' = EmptyMap /\ targetRepos' = EmptyMap
    /\ err' = NoErr /\ addRes' = [Additions |-> NilMap, Err |-> NoErr]
    /\ clRet' = [additions |-> NilMap, removals |-> NilMap, err |-> NoErr]
    /\ adPc' = [d \in Dirs |-> "idle"]
    /\ pending' = [d \in Dirs |-> {}]
    /\ commitsChan' = [d \in Dirs |-> <<>>]
    /\ adI' = [d \in Dirs |-> 0]
    /\ repoCommits' = [d \in Dirs |-> EmptyMap]
    /\ outChan' = [d \in Dirs |-> <<>>]
    /\ UNCHANGED failedTasks
    /\ UNCHANGED <<fbVars, call, cancelled>>



NextChangelog ==
    \/ ChangelogSetup
    \/ \E d \in Dirs : additionsSpawn(d)
    \/ \E d \in Dirs : \E repoURL \in Repos : commitsTask(d, repoURL)
    \/ \E d \in Dirs : additionsRecv(d)
    \/ \E d \in Dirs : additionsReturn(d)
    \/ ChangelogRecvAdd
    \/ ChangelogRecvMiss
    \/ SecondCall

SpecChangelog == InitChangelog /\ [][NextChangelog]_vars

\* The caller cancels the request while Changelog runs. Changelog() has no
\* context parameter and every remote call is made with
\* context.Background() (lines 144, 167, 199): no step of the code reads
\* the cancellation.
RequestCancel ==
    /\ clPc \in {"start", "recvAdd", "recvMiss"}
    /\ cancelled = FALSE
    /\ cancelled' = TRUE
    /\ UNCHANGED <<clVars, fbVars, call>>

NextChangelogCancel == NextChangelog \/ RequestCancel

SpecChangelogCancel == InitChangelog /\ [][NextChangelogCancel]_vars

\* The outcome of a task whose remote call was aborted by the cancellation.
ErrorCancelled == [kind |-> "Cancelled"]

\* C21: once the request is cancelled, every task that delivers an outcome
\* into its aggregation channel delivers Cancelled: its remote call was
\* aborted through the context all tasks share.
C21_CancelledTasksReport ==
    [][\A d \in Dirs :
         (cancelled /\ Len(commitsChan'[d]) > Len(commitsChan[d]))
             => commitsChan'[d][Len(commitsChan'[d])].Err = ErrorCancelled]_vars

\* The directions of Changelog have started and a task or a direction is
\* still at work.
FanOutRunning ==
    \E d \in Dirs : adPc[d] \in {"spawn", "recv"} \/ pending[d] # {}

\* The client map has a client for the instance URL of every repository of
\* both manifests.
AllHaveClient ==
    \A repos \in {sourceRepos, targetRepos} :
        \A r \in DOMAIN repos : repos[r].InstanceURL \in clients

\* C31: when the directions start, the client map has a client for the
\* instance URL of every repository of the source and the target manifest,
\* and while the fan-out runs the map is not written.
C31_ClientsCompleteAndReadOnly ==
    [][FanOutRunning' =>
         /\ AllHaveClient'
         /\ FanOutRunning => clients' = clients]_vars

\* Tasks are at work for repositories of two hosts.
C31_Witness ==
    /\ FanOutRunning
    /\ Cardinality(clients) = 2
    /\ \E d \in Dirs : Cardinality(pending[d]) = 2
    /\ \E d \in Dirs : adPc[d] = "recv" /\ adI[d] > 0

\* The step ends the commits task of repository r in direction d.
TaskEnds(d, r) ==
    /\ callNo' = callNo
    /\ r \in pending[d] /\ r \notin pending'[d]

\* One outcome of a commits task: an error alone, or the commit list of
\* the repository alone.
OneOutcome(res, r) ==
    \/ res.Err # NoErr /\ res.Commits = <<>> /\ res.RepoURL = ""
    \/ res.Err = NoErr /\ res.RepoURL = r

\* C35: every commits task ends, and the step that ends it puts exactly
\* one outcome on the result channel of its direction, an error or the
\* commit list of its repository and never both, whichever path the task
\* takes (first request fails, later request fails, parse fails, success);
\* and no outcome enters the channel but with the end of one task.
C35_TaskSendsOneOutcome ==
    [][\A d \in Dirs :
         /\ \A r \in Repos :
               TaskEnds(d, r) =>
                  /\ commitsChan'[d] # <<>>
                  /\ commitsChan[d] = SubSeq(commitsChan'[d], 1,
                                             Len(commitsChan'[d]) - 1)
                  /\ OneOutcome(commitsChan'[d][Len(commitsChan'[d])], r)
         /\ Len(commitsChan'[d]) > Len(commitsChan[d]) =>
               /\ callNo' = callNo
               /\ Cardinality(pending[d]) = Cardinality(pending'[d]) + 1]_vars

\* Both tasks of a direction have ended: the one whose request failed sent
\* its error, the other its commits fetched page by page.
C35_Witness ==
    \E d \in Dirs :
        /\ pending[d] = {} /\ adPc[d] = "recv"
        /\ Len(commitsChan[d]) = 2
        /\ commitsChan[d][1].Err # NoErr
        /\ commitsChan[d][1].Err.kind = "retrieve"
        /\ commitsChan[d][2].Err = NoErr
        /\ Len(commitsChan[d][2].Commits) > ServerPageCap

\* C36: when a direction fails, the error Changelog returns carries the
\* failure that direction reported: the cause is the error of a commits
\* task, not nil.
C36_DirectionErrorCarried ==
    (/\ clPc = "done"
     /\ clRet.err # NoErr
     /\ clRet.err.kind \in {"additions", "missed"}) =>
        /\ clRet.err.cause # NoErr
        /\ clRet.err.cause.kind \in {"retrieve", "parse"}

\* C22: when additions() produces the result of its fan-out, it has
\* received the outcome of every commits task it started: no task is still
\* running and no outcome is left in the channel, also when a task reported
\* an error.
C22_EveryOutcomeReceived ==
    \A d \in Dirs :
        adPc[d] = "done" => (pending[d] = {} /\ commitsChan[d] = <<>>)

(***************************************************************************)
(* Properties of Changelog.                                                *)
(***************************************************************************)
\* What a returned map holds for a repository: no key is the empty list.
CommitList(m, r) == IF r \in DOMAIN m THEN m[r] ELSE <<>>

SHAs(commitList) == [k \in 1..Len(commitList) |-> commitList[k].SHA]

SHASet(m, r) == Range(SHAs(CommitList(m, r)))

\* The commit ids of the whole log the endpoint holds for a request.
LogIds(repo, committish, ancestor) ==
    LET full == FullLog(repo, committish, ancestor, FALSE)
    IN  [k \in 1..Len(full) |-> full[k].Id]

ChangelogSucceeded == clPc = "done" /\ clRet.err = NoErr

\* C1: for every repository R of the target manifest, the additions of R are
\* the log of R's target committish, excluding the ancestors of R's source
\* committish when the source manifest has R, and excluding nothing (every
\* commit reachable from the target committish) when it has not.
C1_AdditionsAreTheLog ==
    ChangelogSucceeded =>
        \A r \in Repos :
            targetBuildNum[r] # 0 =>
                SHAs(CommitList(clRet.additions, r)) =
                    IF sourceBuildNum[r] # 0
                    THEN LogIds(r, targetBuildNum[r], sourceBuildNum[r])
                    ELSE NewestFirst(Reach(r, targetBuildNum[r]))

C1_Witness ==
    /\ ChangelogSucceeded
    /\ sourceBuildNum["r1"] # 0 /\ "r1" \in DOMAIN clRet.additions
    /\ sourceBuildNum["r2"] = 0 /\ "r2" \in DOMAIN clRet.additions
    /\ Len(clRet.additions["r2"]) > ServerPageCap

\* C2: for a repository R pinned in both manifests, the commits of
\* additions[R] together with those of removals[R] are the symmetric
\* difference of the commit sets reachable from the two pins.
C2_SymmetricDifference ==
    ChangelogSucceeded =>
        \A r \in Repos :
            (sourceBuildNum[r] # 0 /\ targetBuildNum[r] # 0) =>
                LET fromS == Reach(r, sourceBuildNum[r])
                    fromT == Reach(r, targetBuildNum[r])
                IN  SHASet(clRet.additions, r) \cup SHASet(clRet.removals, r)
                        = (fromS \ fromT) \cup (fromT \ fromS)

C2_Witness ==
    /\ ChangelogSucceeded
    /\ sourceBuildNum["r1"] # 0 /\ targetBuildNum["r1"] # 0
    /\ "r1" \in DOMAIN clRet.additions
    /\ "r1" \in DOMAIN clRet.removals

\* C3: against the same remote state, the additions of Changelog(S,T) are the
\* removals of Changelog(T,S), and the removals of Changelog(S,T) are the
\* additions of Changelog(T,S).
C3_SwapSymmetry ==
    (ChangelogSucceeded /\ callNo = 2) =>
        /\ prevRet.additions = clRet.removals
        /\ prevRet.removals = clRet.additions

C3_Witness ==
    /\ ChangelogSucceeded /\ callNo = 2
    /\ DOMAIN clRet.additions = Repos
    /\ "r1" \in DOMAIN clRet.removals
    /\ clRet.additions # clRet.removals

\* C4: Changelog(S,S) returns an additions map and a removals map without
\* any repository key.
C4_SameBuildEmpty ==
    (ChangelogSucceeded /\ sourceBuildNum = targetBuildNum) =>
        /\ DOMAIN clRet.additions = {}
        /\ DOMAIN clRet.removals = {}

C4_Witness ==
    /\ ChangelogSucceeded /\ sourceBuildNum = targetBuildNum
    /\ \A r \in Repos : sourceBuildNum[r] = NCommits

\* C5: in every map Changelog returns, each repository key maps to a
\* non-empty commit list.
C5_NoEmptyLists ==
    ChangelogSucceeded =>
        /\ \A r \in DOMAIN clRet.additions : Len(clRet.additions[r]) > 0
        /\ \A r \in DOMAIN clRet.removals : Len(clRet.removals[r]) > 0

C5_Witness ==
    /\ ChangelogSucceeded
    /\ sourceBuildNum["r1"] # 0 /\ sourceBuildNum["r1"] = targetBuildNum["r1"]
    /\ DOMAIN clRet.additions = {"r2"}
    /\ DOMAIN clRet.removals = {}

\* C6: if the log retrieval of any repository fails in either direction,
\* Changelog returns a non-nil error and neither map, whatever the order in
\* which the per-repository results arrive.
C6_NoPartialChangelog ==
    (clPc = "done" /\ \E t \in failedTasks : t[1] = callNo) =>
        /\ clRet.err # NoErr
        /\ clRet.additions = NilMap
        /\ clRet.removals = NilMap

\* The missed-commits direction fails on its second result, after the
\* additions direction has succeeded.
C6_Witness ==
    /\ clPc = "done"
    /\ \E r \in Repos : <<callNo, "miss", r>> \in failedTasks
    /\ \A t \in failedTasks : t[2] = "miss"
    /\ addRes.Err = NoErr /\ DOMAIN addRes.Additions = Repos
    /\ adI["miss"] = 1 /\ DOMAIN repoCommits["miss"] # {}

(***************************************************************************)
(* findbuild.go: the change locator getCLData().                           *)
(* Names of projects are sequences of tokens, branches and releases are    *)
(* sequences of characters.                                                *)
(***************************************************************************)
\* Longest branch name Gerrit holds for a change.
MaxBranchLen == 6

BranchChars == {"-", "c", "o", "s"}

RECURSIVE StringsUpTo(_, _)
StringsUpTo(chars, n) ==
    IF n = 0 THEN {<<>>}
    ELSE LET shorter == StringsUpTo(chars, n - 1)
         IN  shorter \cup {Append(str, ch) : str \in shorter, ch \in chars}

Branches == StringsUpTo(BranchChars, MaxBranchLen)

KernelProject == <<"third_party/kernel">>

OtherProject == <<"r1">>

\* request.RepoPrefix
RepoPrefix == <<"mirrors/">>

\* Lines 66-78. The regular expression "(.*)-cos-.*" is held as the literal
\* that separates its capture group from the rest.
clReleaseMapping ==
    [project \in {KernelProject} |->
        [releaseRe      |-> <<"-", "c", "o", "s", "-">>,
         defaultRelease |-> <<"m", "a", "s", "t", "e", "r">>]]

\* regexp FindStringSubmatch for "(.*)<literal>.*" on a text without line
\* breaks: no match (nil) when the literal does not occur; otherwise the
\* whole text and capture group 1, which is greedy and so ends where the
\* last occurrence of the literal starts.
FindStringSubmatch(literal, text) ==
    LET n    == Len(literal)
        occs == {k \in 1..(Len(text) - n + 1) : SubSeq(text, k, k + n - 1) = literal}
    IN  IF occs = {} THEN <<>>
        ELSE <<text, SubSeq(text, 1, SetMax(occs) - 1)>>

\* Lines 189-196.
releaseOf(change) ==
    IF change.Project \in DOMAIN clReleaseMapping
    THEN LET rule    == clReleaseMapping[change.Project]
             release == rule.defaultRelease
             matches == FindStringSubmatch(rule.releaseRe, release)
         IN  IF Len(matches) = 2 THEN matches[2] ELSE release
    ELSE change.Branch

\* Line 157: ChangeQueryParams.N
queryLimit == 2

\* Mutant: the query asks for a single match.
clListOne(matches) == SubSeq(matches, 1, Min(1, Len(matches)))

\* Lines 153-164: Gerrit answers with at most N of the matching changes.
clList(matches) == SubSeq(matches, 1, Min(queryLimit, Len(matches)))

ErrorCLNotLanded == [kind |-> "ErrorCLNotLanded"]

ErrorCLNotFound == [kind |-> "ErrorCLNotFound"]

ErrorIDNotUnique == [kind |-> "ErrorIDNotUnique"]

ErrorNoManifestBranchMatch == [kind |-> "ErrorNoManifestBranchMatch"]

ErrorNotSubmitted == [kind |-> "No submitted CL found"]

\* Line 170: the query itself failed.
ErrorRetrievingChange == [kind |-> "getCLData: Error retrieving change"]

\* A submission timestamp is <<>> (the empty string), <<t>> with t >= 0 for
\* a string in the format of line 184 that denotes time t, or Garbled for
\* text in no such format.
Garbled == <<-1>>

timeParses(submitted) == submitted # Garbled

\* Lines 166-205.
getCLData(matches, queryFails, manifestPrefix) ==
    LET found  == clList(matches)
        change == found[1]
    IN  IF queryFails
        THEN [err |-> ErrorRetrievingChange]
        ELSE IF Len(found) = 0 THEN [err |-> ErrorCLNotFound]
        ELSE IF Len(found) > 1 THEN [err |-> ErrorIDNotUnique]
        ELSE IF change.Submitted = <<>> THEN [err |-> ErrorNotSubmitted]
        ELSE IF ~timeParses(change.Submitted)
        THEN [err |-> [kind |-> "getTargetData: Error parsing CL submit time"]]
        ELSE [err      |-> NoErr,
              CLNum    |-> change.ChangeNumber,
              Project  |-> manifestPrefix \o change.Project,
              Release  |-> releaseOf(change),
              Branch   |-> change.Branch,
              Revision |-> change.CurrentRevision,
              Time     |-> change.Submitted[1]]

fbFail(e) ==
    /\ fbRet' = [err |-> e]
    /\ fbPc' = "done"

\* Lines 440-443: FindBuild locates the change.
FindBuildGetCLData ==
    /\ fbPc = "getCLData"
    /\ \E queryFails \in BOOLEAN :
         LET res == getCLData(gerritMatches, queryFails, RepoPrefix)
         IN  /\ clRes' = res
             /\ gerritQuery' = [N |-> queryLimit]
             /\ IF res.err # NoErr
                THEN fbFail([kind |-> "FindCL: Error retrieving CL", cause |-> res.err])
                ELSE fbPc' = "getRepoData" /\ UNCHANGED fbRet
    /\ UNCHANGED <<request, gerritMatches, manifestOf, buildNums, running, shaChan,
                   grI, output, sourceOrder, targetOrder>>
    /\ UNCHANGED <<clVars, call, cancelled>>

\* Changelog is not running.
clParked ==
    /\ sourceBuildNum = [r \in Repos |-> 0] /\ targetBuildNum = [r \in Repos |-> 0]
    /\ callNo = 0
    /\ prevRet = [additions |-> NilMap, removals |-> NilMap, err |-> NoErr]
    /\ clPc = "parked"
    /\ clIdle

\* A change of Gerrit that the regular expression and the classification of
\* getCLData can tell apart.
LocateChanges ==
    [ChangeNumber : {7}, Project : {KernelProject, OtherProject}, Branch : Branches,
     CurrentRevision : {1}, Submitted : {<<>>, <<1>>, Garbled}]

SiblingChange ==
    [ChangeNumber |-> 8, Project |-> OtherProject, Branch |-> <<"s">>,
     CurrentRevision |-> 2, Submitted |-> <<1>>]

\* Gerrit holds up to three changes that match the identifier.
InitLocate ==
    /\ cancelled = FALSE
    /\ gerritMatches \in
         {<<>>} \cup {<<c>> \o more : c \in LocateChanges,
                      more \in {<<>>, <<SiblingChange>>,
                                <<SiblingChange, SiblingChange>>}}
    /\ request = "req" /\ manifestOf = <<>>
    /\ fbPc = "getCLData" /\ gerritQuery = [N |-> 0] /\ clRes = [err |-> NoErr]
    /\ buildNums = <<>> /\ running = {} /\ shaChan = <<>> /\ grI = 0
    /\ output = emptyRepoData /\ sourceOrder = 0 /\ targetOrder = 0
    /\ fbRet = [err |-> NoErr]
    /\ clParked
    /\ callIdle

NextLocate == FindBuildGetCLData

SpecLocate == InitLocate /\ [][NextLocate]_vars

(***************************************************************************)
(* findbuild.go: the manifest repository seen by FindBuild.                *)
(* The release branch holds one manifest commit per build 1..NBuilds; the  *)
(* commit of build b is tagged refs/tags/<b> and was made at ManifestTime. *)
(***************************************************************************)
\* Builds of the release branch.
NBuilds == 3
\* Commits of the change's repository.
NRevisions == 4

endBuildTime == 5

Revisions == 1..NRevisions

\* The branch of the change, which is also its release.
WorldBranch == <<"s">>

ManifestSHA(b) == 100 + b

\* Days between two builds of the release branch.
ManifestTime(b) == 2 * b

\* Submission times: before the first build, and between builds 1 and 2.
ChangeTimes == {1, 3}

\* The revisions of the changes looked for: the root commit, which every
\* other commit contains, and commit 2, which commit 3 does not contain.
ChangeRevisions == {1, 2}

\* utils.Commits on refs/heads/<release> of the manifest repository: newest
\* first.
AllManifests(release) ==
    IF release # WorldBranch THEN <<>>
    ELSE [k \in 1..NBuilds |->
            [Id        |-> ManifestSHA(NBuilds + 1 - k),
             Committer |-> TRUE,
             Time      |-> ManifestTime(NBuilds + 1 - k)]]

RefsTags == <<"r", "e", "f", "s", "/", "t", "a", "g", "s", "/">>

RefsHeads == <<"r", "e", "f", "s", "/", "h", "e", "a", "d", "s", "/">>

\* RefsResponse.Revisions of refs/tags: tag ref -> manifest commit.
TagRevisions ==
    [tagRef \in {RefsTags \o <<b>> : b \in 1..NBuilds} |-> ManifestSHA(tagRef[11])]

\* The ways a snapshot.xml can be broken: text that is no XML, no manifest
\* root, no default element, a project without name, the project of the
\* change's repository without revision, a dest-branch shorter than
\* refs/heads/.
BrokenShapes == {"notXML", "noRoot", "noDefault", "noName", "noRevision", "shortBranch"}

\* What the manifest repository holds for a build: snapshot.xml can be
\* downloaded or not, and its project element for the change's repository
\* pins revision (0: the manifest has no such project) and names remote.
\* The newest build may have moved the repository to the other host, and
\* the snapshot.xml of the oldest build may be broken.
ManifestKinds(b) ==
    {[available |-> TRUE, revision |-> c, remote |-> "cos", shape |-> "sound"] :
        c \in 0..NRevisions}
        \cup {[available |-> FALSE, revision |-> 0, remote |-> "cos", shape |-> "sound"]}
        \cup (IF b = NBuilds
              THEN {[available |-> TRUE, revision |-> NRevisions, remote |-> "aux",
                     shape |-> "sound"]}
              ELSE {})
        \cup (IF b = 1
              THEN {[available |-> TRUE, revision |-> 1, remote |-> "cos", shape |-> sh] :
                       sh \in BrokenShapes}
              ELSE {})

\* An element without attribute a.
WithoutAttr(e, a) == [x \in DOMAIN e \ {a} |-> e[x]]

FBProjectElement(kind) ==
    LET branch == IF kind.shape = "shortBranch" THEN <<"r", "e", "f", "s">>
                  ELSE RefsHeads \o WorldBranch
        whole  == IF kind.remote = "cos"
                  THEN [name |-> RepoPrefix \o OtherProject, revision |-> kind.revision]
                           @@ ("dest-branch" :> branch)
                  ELSE [name |-> RepoPrefix \o OtherProject, revision |-> kind.revision,
                        remote |-> kind.remote]
                           @@ ("dest-branch" :> branch)
    IN  IF kind.shape = "noName" THEN WithoutAttr(whole, "name")
        ELSE IF kind.shape = "noRevision" THEN WithoutAttr(whole, "revision")
        ELSE whole

\* snapshot.xml of a build.
FBManifestDoc(kind) ==
    [wellFormed |-> kind.shape # "notXML", hasRoot |-> kind.shape # "noRoot",
     remote  |-> ManifestRemotes,
     default |-> IF kind.shape = "noDefault" THEN <<>> ELSE << [remote |-> "cos"] >>,
     project |-> << [name |-> RepoPrefix \o KernelProject, revision |-> 1] >>
                 \o (IF kind.revision = 0 THEN <<>> ELSE <<FBProjectElement(kind)>>)]

\* utils.Commits on the change's repository: the whole log of committish
\* excluding the ancestors of ancestor.
utilsCommits(project, committish, ancestor) ==
    FullLog(project[Len(project)], committish, ancestor, FALSE)

(***************************************************************************)
(* findbuild.go: the manifest-window selector.                             *)
(* Indices are those of the code (0-based).                                *)
(***************************************************************************)
At(list, idx) == list[idx + 1]

\* Mutant: the first search tests After instead of Before.
RECURSIVE earliestSearchAfter(_, _, _, _)
earliestSearchAfter(allManifests, targetTime, left, right) ==
    IF ~(left < right) THEN [err |-> FALSE, left |-> left, right |-> right]
    ELSE LET mid == (left + right) \div 2
         IN  IF ~At(allManifests, mid).Committer
             THEN [err |-> TRUE, left |-> left, right |-> right]
             ELSE IF At(allManifests, mid).Time > targetTime
             THEN earliestSearchAfter(allManifests, targetTime, left, mid)
             ELSE earliestSearchAfter(allManifests, targetTime, mid + 1, right)

\* Lines 219-230.
RECURSIVE earliestSearch(_, _, _, _)
earliestSearch(allManifests, targetTime, left, right) ==
    IF ~(left < right) THEN [err |-> FALSE, left |-> left, right |-> right]
    ELSE LET mid == (left + right) \div 2
         IN  IF ~At(allManifests, mid).Committer
             THEN [err |-> TRUE, left |-> left, right |-> right]
             ELSE IF At(allManifests, mid).Time < targetTime
             THEN earliestSearch(allManifests, targetTime, left, mid)
             ELSE earliestSearch(allManifests, targetTime, mid + 1, right)

\* Mutant: the second search tests Before instead of After.
RECURSIVE latestSearchBefore(_, _, _, _)
latestSearchBefore(allManifests, endDate, left, right) ==
    IF ~(left < right) THEN [err |-> FALSE, left |-> left, right |-> right]
    ELSE LET mid == (left + right) \div 2 + 1
         IN  IF ~At(allManifests, mid).Committer
             THEN [err |-> TRUE, left |-> left, right |-> right]
             ELSE IF At(allManifests, mid).Time < endDate
             THEN latestSearchBefore(allManifests, endDate, mid, right)
             ELSE latestSearchBefore(allManifests, endDate, left, mid - 1)

\* Lines 236-247.
RECURSIVE latestSearch(_, _, _, _)
latestSearch(allManifests, endDate, left, right) ==
    IF ~(left < right) THEN [err |-> FALSE, left |-> left, right |-> right]
    ELSE LET mid == (left + right) \div 2 + 1
         IN  IF ~At(allManifests, mid).Committer
             THEN [err |-> TRUE, left |-> left, right |-> right]
             ELSE IF At(allManifests, mid).Time > endDate
             THEN latestSearch(allManifests, endDate, mid, right)
             ELSE latestSearch(allManifests, endDate, left, mid - 1)

\* Mutant: the second search starts again from the whole list.
candidateManifestCommitsResetRight(allManifests, targetTime) ==
    LET first == earliestSearch(allManifests, targetTime, 0, Len(allManifests) - 1)
        earliestIdx == first.left
        second == latestSearch(allManifests, targetTime + endBuildTime, 0,
                               Len(allManifests) - 1)
        latestIdx == second.right
    IN  IF first.err \/ second.err
        THEN [outcome |-> "error", commits |-> <<>>,
              latestIdx |-> 0, earliestIdx |-> 0]
        ELSE IF latestIdx < 0 \/ latestIdx > earliestIdx + 1
                \/ earliestIdx + 1 > Len(allManifests)
        THEN [outcome |-> "panic", commits |-> <<>>,
              latestIdx |-> latestIdx, earliestIdx |-> earliestIdx]
        ELSE [outcome |-> "ok",
              commits |-> SubSeq(allManifests, latestIdx + 1, earliestIdx + 1),
              latestIdx |-> latestIdx, earliestIdx |-> earliestIdx]

\* Lines 216-249: the slice allManifests[latestIdx : earliestIdx+1], an
\* error, or the panic of a slice expression out of range.
candidateManifestCommits(allManifests, targetTime) ==
    LET first == earliestSearch(allManifests, targetTime, 0, Len(allManifests) - 1)
        earliestIdx == first.left
        second == latestSearch(allManifests, targetTime + endBuildTime, 0, first.right)
        latestIdx == second.right
    IN  IF first.err \/ second.err
        THEN [outcome |-> "error", commits |-> <<>>,
              latestIdx |-> 0, earliestIdx |-> 0]
        ELSE IF latestIdx < 0 \/ latestIdx > earliestIdx + 1
                \/ earliestIdx + 1 > Len(allManifests)
        THEN [outcome |-> "panic", commits |-> <<>>,
              latestIdx |-> latestIdx, earliestIdx |-> earliestIdx]
        ELSE [outcome |-> "ok",
              commits |-> SubSeq(allManifests, latestIdx + 1, earliestIdx + 1),
              latestIdx |-> latestIdx, earliestIdx |-> earliestIdx]

\* Lines 280-283: manifest commit -> tag ref. When several tags point to
\* one commit, the map holds the one that the iteration over
\* tags.Revisions, whose order is not fixed, meets last: any of them.
gitTagsMaps(revisions) ==
    LET shas == {revisions[t] : t \in DOMAIN revisions}
    IN  {f \in [shas -> DOMAIN revisions] : \A sha \in shas : revisions[f[sha]] = sha}

\* Mutant: the prefix is removed before the length of the tag is tested.
candidateBuildNumsUnchecked(manifestCommits, tags) ==
    LET bad == \E k \in 1..Len(manifestCommits) : manifestCommits[k].Id \notin DOMAIN tags
    IN  IF bad THEN [err |-> TRUE, buildNums |-> <<>>]
        ELSE [err |-> FALSE,
              buildNums |-> [k \in 1..Len(manifestCommits) |->
                               LET tag == tags[manifestCommits[k].Id]
                               IN  SubSeq(tag, 11, Len(tag))]]

\* Lines 284-296: the build numbers of the window, or an error; tags is
\* gitTagsMap.
candidateBuildNumsOf(manifestCommits, tags) ==
    LET bad == \E k \in 1..Len(manifestCommits) :
                    \/ manifestCommits[k].Id \notin DOMAIN tags
                    \/ Len(tags[manifestCommits[k].Id]) <= 10
    IN  IF bad THEN [err |-> TRUE, buildNums |-> <<>>]
        ELSE [err |-> FALSE,
              buildNums |-> [k \in 1..Len(manifestCommits) |->
                               LET tag == tags[manifestCommits[k].Id]
                               IN  SubSeq(tag, 11, Len(tag))]]

(***************************************************************************)
(* findbuild.go: manifestData(), the per-manifest task.                    *)
(***************************************************************************)
\* Lines 332-336: the dest-branch of a project without its first 11
\* characters.
destBranch(project) ==
    LET branch == SelectAttrValue(project, "dest-branch", <<>>)
    IN  IF Len(branch) > 0 THEN SubSeq(branch, 12, Len(branch)) ELSE branch

\* Line 337.
projectMatches(project, targetData) ==
    /\ project["name"] = targetData.Project
    /\ destBranch(project) = <<>> \/ destBranch(project) = targetData.Branch

\* The dereferences and slice expressions of manifestData that panic.
manifestDataPanics(doc, targetData) ==
    \/ ~doc.hasRoot
    \/ \E k \in 1..Len(doc.remote) :
          ~HasAttr(doc.remote[k], "fetch") \/ ~HasAttr(doc.remote[k], "name")
    \/ doc.default = <<>>
    \/ \E k \in 1..Len(doc.project) :
          \/ ~HasAttr(doc.project[k], "name")
          \/ LET branch == SelectAttrValue(doc.project[k], "dest-branch", <<>>)
             IN  Len(branch) > 0 /\ Len(branch) < 11
          \/ /\ HasAttr(doc.project[k], "name")
             /\ LET branch == SelectAttrValue(doc.project[k], "dest-branch", <<>>)
                IN  Len(branch) = 0 \/ Len(branch) >= 11
             /\ projectMatches(doc.project[k], targetData)
             /\ ~HasAttr(doc.project[k], "revision")

\* Lines 329-341: the last matching project sets SHA and RemoteURL.
RECURSIVE scanProjects(_, _, _, _, _)
scanProjects(projects, remoteMap, targetData, n, buildNum) ==
    IF n = 0 THEN [BuildNum |-> buildNum, SHA |-> 0, RemoteURL |-> <<>>, Err |-> NoErr]
    ELSE LET before == scanProjects(projects, remoteMap, targetData, n - 1, buildNum)
         IN  IF projectMatches(projects[n], targetData)
             THEN [before EXCEPT
                     !.SHA = projects[n]["revision"],
                     !.RemoteURL = MapGetStr(remoteMap,
                                     SelectAttrValue(projects[n], "remote", ""))]
             ELSE before

manifestErr(kind, buildNum) ==
    [BuildNum |-> <<>>, SHA |-> 0, RemoteURL |-> <<>>,
     Err |-> [kind |-> kind, build |-> buildNum]]

\* Lines 301-347: the manifestResponse sent on out, or a panic.
manifestData(response, buildNum, targetData) ==
    LET doc == response.Contents
    IN
    IF response.err THEN [panic |-> FALSE, resp |-> manifestErr("download", buildNum)]
    ELSE IF ~doc.wellFormed THEN [panic |-> FALSE, resp |-> manifestErr("xml", buildNum)]
    ELSE IF manifestDataPanics(doc, targetData)
    THEN [panic |-> TRUE, resp |-> manifestErr("panic", buildNum)]
    ELSE LET named     == remoteMapOf(doc.remote, Len(doc.remote))
             remoteMap == IF HasAttr(doc.default[1], "remote")
                          THEN MapPut(named, "",
                                      MapGetStr(named, doc.default[1]["remote"]))
                          ELSE named
             out == scanProjects(doc.project, remoteMap, targetData,
                                 Len(doc.project), buildNum)
         IN  IF out.SHA = 0 \/ out.RemoteURL = <<>>
             THEN [panic |-> FALSE, resp |-> manifestErr("not found", buildNum)]
             ELSE [panic |-> FALSE, resp |-> out]

(***************************************************************************)
(* findbuild.go: getRepoData() and firstBuild().                           *)
(***************************************************************************)
\* Lines 358-361: build number -> minus its index in buildNums.
buildOrder(nums) ==
    [b \in Range(nums) |-> 0 - (SetMax({k \in 1..Len(nums) : nums[k] = b}) - 1)]

\* Lines 408-412: the index of the change's revision in the changelog, -1
\* when it is not there.
targetIdxOf(changelog, revision) ==
    LET at == {i \in 0..(Len(changelog) - 1) : At(changelog, i).Id = revision}
    IN  IF at = {} THEN 0 - 1 ELSE SetMax(at)

\* Mutant: the scan starts below index i.
scanForBuildBelow(changelog, candidates, i) ==
    LET hits == {j \in 0..(i - 1) : At(changelog, j).Id \in DOMAIN candidates}
    IN  IF hits = {} THEN [BuildNum |-> <<>>, err |-> ErrorCLNotLanded]
        ELSE [BuildNum |-> candidates[At(changelog, SetMax(hits)).Id], err |-> NoErr]

\* Mutant: the scan runs from index 0 up to i.
scanForBuildFromNewest(changelog, candidates, i) ==
    LET hits == {j \in 0..i : At(changelog, j).Id \in DOMAIN candidates}
    IN  IF hits = {} THEN [BuildNum |-> <<>>, err |-> ErrorCLNotLanded]
        ELSE [BuildNum |-> candidates[At(changelog, CHOOSE j \in hits :
                                                     \A h \in hits : j <= h).Id],
              err |-> NoErr]

\* Lines 416-421: the scan from index i down to 0.
RECURSIVE scanForBuild(_, _, _)
scanForBuild(changelog, candidates, i) ==
    IF i < 0 THEN [BuildNum |-> <<>>, err |-> ErrorCLNotLanded]
    ELSE IF At(changelog, i).Id \in DOMAIN candidates
    THEN [BuildNum |-> candidates[At(changelog, i).Id], err |-> NoErr]
    ELSE scanForBuild(changelog, candidates, i - 1)

\* Lines 405-423.
firstBuild(changelog, targetData, candidates) ==
    LET targetIdx == targetIdxOf(changelog, targetData.Revision)
    IN  IF targetIdx = 0 - 1 THEN [BuildNum |-> <<>>, err |-> ErrorCLNotLanded]
        ELSE scanForBuild(changelog, candidates, targetIdx)

(***************************************************************************)
(* findbuild.go: FindBuild() as a state machine.                           *)
(* fbPc: enter -> getCLData -> getRepoData -> wait -> resolve -> done, or  *)
(* panic when the process dies of a run-time panic.                        *)
(***************************************************************************)
\* Lines 427-439: the first statement reads request.CL, before the test of
\* request against nil.
FindBuildEnter ==
    /\ fbPc = "enter"
    /\ IF request = "nil"
       THEN fbPc' = "panic" /\ UNCHANGED fbRet
       ELSE \E fault \in {"none", "gerrit", "gitiles"} :
              IF fault = "gerrit"
              THEN fbFail([kind |-> "FindCL: Error creating Gerrit Client"])
              ELSE IF fault = "gitiles"
              THEN fbFail([kind |-> "FindCL: Error creating Gitiles Client"])
              ELSE fbPc' = "getCLData" /\ UNCHANGED fbRet
    /\ UNCHANGED <<request, gerritMatches, manifestOf, gerritQuery, clRes, buildNums,
                   running, shaChan, grI, output, sourceOrder, targetOrder>>
    /\ UNCHANGED <<clVars, call, cancelled>>

\* Lines 353-369 (with candidateBuildNums, lines 270-297): the build numbers
\* of the window, and one manifestData task per build number.
getRepoDataSpawn ==
    /\ fbPc = "getRepoData"
    /\ \E fault \in {"none", "commits", "tags"}, tags \in gitTagsMaps(TagRevisions) :
         LET window == candidateManifestCommits(AllManifests(clRes.Release), clRes.Time)
             nums   == candidateBuildNumsOf(window.commits, tags)
         IN  IF fault = "commits"
             THEN fbFail([kind |-> "commits: transport"])
                  /\ UNCHANGED <<buildNums, running, output>>
             ELSE IF window.outcome = "panic"
             THEN fbPc' = "panic" /\ UNCHANGED <<fbRet, buildNums, running, output>>
             ELSE IF window.outcome = "error"
             THEN fbFail([kind |-> "Manifest has no committer"])
                  /\ UNCHANGED <<buildNums, running, output>>
             ELSE IF fault = "tags"
             THEN fbFail([kind |-> "tagMapping: Failed to retrieve tags"])
                  /\ UNCHANGED <<buildNums, running, output>>
             ELSE IF nums.err
             THEN fbFail([kind |-> "candidateBuildNums: No ref tag found"])
                  /\ UNCHANGED <<buildNums, running, output>>
             ELSE /\ buildNums' = nums.buildNums
                  /\ running' = 1..Len(nums.buildNums)
                  /\ output' = emptyRepoData
                  /\ fbPc' = "wait"
                  /\ UNCHANGED fbRet
    /\ UNCHANGED <<request, gerritMatches, manifestOf, gerritQuery, clRes, shaChan,
                   grI, sourceOrder, targetOrder>>
    /\ UNCHANGED <<clVars, call, cancelled>>

\* Mutant: the channel holds one response, as the channels of Changelog do.
shaChanCapOne == IF buildNums = <<>> THEN 0 ELSE 1

\* Line 364: make(chan manifestResponse, len(buildNums)).
shaChanCap == Len(buildNums)

\* utils.DownloadManifest: snapshot.xml at the tag of the build, or an error.
DownloadManifest(buildNum) ==
    [err      |-> ~manifestOf[buildNum[1]].available,
     Contents |-> FBManifestDoc(manifestOf[buildNum[1]])]

\* Lines 301-347: the task of the k-th build number.
manifestDataTask(k) ==
    /\ fbPc = "wait"
    /\ k \in running
    /\ LET r == manifestData(DownloadManifest(buildNums[k]), buildNums[k], clRes)
       IN  IF r.panic
           THEN fbPc' = "panic" /\ UNCHANGED <<running, shaChan>>
           ELSE /\ Len(shaChan) < shaChanCap
                /\ shaChan' = Append(shaChan, r.resp)
                /\ running' = running \ {k}
                /\ UNCHANGED fbPc
    /\ UNCHANGED <<request, gerritMatches, manifestOf, gerritQuery, clRes, buildNums,
                   grI, output, sourceOrder, targetOrder, fbRet>>
    /\ UNCHANGED <<clVars, call, cancelled>>

\* Lines 370-372: wg.Wait() returns when every task is done.
getRepoDataWait ==
    /\ fbPc = "wait"
    /\ running = {}
    /\ sourceOrder' = Len(buildNums)
    /\ targetOrder' = 0 - Len(buildNums)
    /\ grI' = 0
    /\ fbPc' = "recv"
    /\ UNCHANGED <<request, gerritMatches, manifestOf, gerritQuery, clRes, buildNums,
                   running, shaChan, output, fbRet>>
    /\ UNCHANGED <<clVars, call, cancelled>>

\* Mutant: a SHA keeps the build of the response that arrived first.
mergedFirstArrival(curr, out, srcOrder, tgtOrder, order) ==
    LET isTarget == order[curr.BuildNum] > tgtOrder
        isSource == order[curr.BuildNum] < srcOrder
    IN  [output |-> [RemoteURL  |-> curr.RemoteURL,
                     TargetSHA  |-> IF isTarget THEN curr.SHA ELSE out.TargetSHA,
                     SourceSHA  |-> IF isSource THEN curr.SHA ELSE out.SourceSHA,
                     Candidates |-> IF curr.SHA \notin DOMAIN out.Candidates
                                    THEN MapPut(out.Candidates, curr.SHA, curr.BuildNum)
                                    ELSE out.Candidates],
         targetOrder |-> IF isTarget THEN order[curr.BuildNum] ELSE tgtOrder,
         sourceOrder |-> IF isSource THEN order[curr.BuildNum] ELSE srcOrder]

\* Mutant: TargetSHA and SourceSHA are those of the response that arrived
\* last.
mergedLastArrival(curr, out, srcOrder, tgtOrder, order) ==
    LET stores == \/ curr.SHA \notin DOMAIN out.Candidates
                  \/ order[curr.BuildNum] < order[out.Candidates[curr.SHA]]
    IN  [output |-> [RemoteURL  |-> curr.RemoteURL,
                     TargetSHA  |-> curr.SHA,
                     SourceSHA  |-> curr.SHA,
                     Candidates |-> IF stores
                                    THEN MapPut(out.Candidates, curr.SHA, curr.BuildNum)
                                    ELSE out.Candidates],
         targetOrder |-> order[curr.BuildNum],
         sourceOrder |-> order[curr.BuildNum]]

\* Lines 379-395: what a response without error does to output and to the
\* orders.
merged(curr, out, srcOrder, tgtOrder, order) ==
    LET isTarget == order[curr.BuildNum] > tgtOrder
        isSource == order[curr.BuildNum] < srcOrder
        stores   == \/ curr.SHA \notin DOMAIN out.Candidates
                    \/ order[curr.BuildNum] < order[out.Candidates[curr.SHA]]
    IN  [output |-> [RemoteURL  |-> curr.RemoteURL,
                     TargetSHA  |-> IF isTarget THEN curr.SHA ELSE out.TargetSHA,
                     SourceSHA  |-> IF isSource THEN curr.SHA ELSE out.SourceSHA,
                     Candidates |-> IF stores
                                    THEN MapPut(out.Candidates, curr.SHA, curr.BuildNum)
                                    ELSE out.Candidates],
         targetOrder |-> IF isTarget THEN order[curr.BuildNum] ELSE tgtOrder,
         sourceOrder |-> IF isSource THEN order[curr.BuildNum] ELSE srcOrder]

\* Lines 373-396: one iteration of the receive loop.
getRepoDataRecv ==
    /\ fbPc = "recv"
    /\ grI < Len(buildNums)
    /\ LET curr == Head(shaChan)
           m    == merged(curr, output, sourceOrder, targetOrder, buildOrder(buildNums))
       IN  /\ shaChan' = Tail(shaChan)
           /\ IF curr.Err # NoErr
              THEN /\ grI' = grI + 1
                   /\ UNCHANGED <<output, sourceOrder, targetOrder, fbPc, fbRet>>
              ELSE IF output.RemoteURL # <<>> /\ output.RemoteURL # curr.RemoteURL
              THEN /\ fbFail([kind  |-> "getRepoData: Remote URL for repository changed",
                              build |-> curr.BuildNum])
                   /\ UNCHANGED <<grI, output, sourceOrder, targetOrder>>
              ELSE /\ grI' = grI + 1
                   /\ output' = m.output
                   /\ sourceOrder' = m.sourceOrder
                   /\ targetOrder' = m.targetOrder
                   /\ UNCHANGED <<fbPc, fbRet>>
    /\ UNCHANGED <<request, gerritMatches, manifestOf, gerritQuery, clRes, buildNums,
                   running>>
    /\ UNCHANGED <<clVars, call, cancelled>>

\* Lines 397-400 and 444-447: getRepoData returns.
getRepoDataReturn ==
    /\ fbPc = "recv"
    /\ grI = Len(buildNums)
    /\ IF output.Candidates = EmptyMap
       THEN fbFail(ErrorNoManifestBranchMatch)
       ELSE fbPc' = "resolve" /\ UNCHANGED fbRet
    /\ UNCHANGED <<request, gerritMatches, manifestOf, gerritQuery, clRes, buildNums,
                   running, shaChan, grI, output, sourceOrder, targetOrder>>
    /\ UNCHANGED <<clVars, call, cancelled>>

\* Lines 449-468: the changelog of the change's repository between SourceSHA
\* and TargetSHA, and the first build in it.
FindBuildResolve ==
    /\ fbPc = "resolve"
    /\ \E fault \in {"none", "client", "commits"} :
         LET changelog == utilsCommits(clRes.Project, output.TargetSHA, output.SourceSHA)
             first     == firstBuild(changelog, clRes, output.Candidates)
         IN  IF fault = "client" /\ host # output.RemoteURL
             THEN fbFail([kind |-> "FindCL: Failed to create gitiles client"])
             ELSE IF fault = "commits"
             THEN fbFail([kind |-> "commits: transport"])
             ELSE IF first.err # NoErr
             THEN fbFail(first.err)
             ELSE /\ fbRet' = [err |-> NoErr, BuildNum |-> first.BuildNum,
                               CLNum |-> clRes.CLNum]
                  /\ fbPc' = "done"
    /\ UNCHANGED <<request, gerritMatches, manifestOf, gerritQuery, clRes, buildNums,
                   running, shaChan, grI, output, sourceOrder, targetOrder>>
    /\ UNCHANGED <<clVars, call, cancelled>>

\* A branch of the change's repository whose release branch in the manifest
\* repository has no commits.
EmptyBranch == <<"o">>

\* The changes Gerrit may hold for the identifier: a change of the
\* repository submitted to the release branch, or one submitted to the
\* branch without manifests.
FBChanges ==
    [ChangeNumber : {7}, Project : {OtherProject}, Branch : {WorldBranch},
     CurrentRevision : ChangeRevisions, Submitted : {<<t>> : t \in ChangeTimes}]
        \cup [ChangeNumber : {7}, Project : {OtherProject}, Branch : {EmptyBranch},
              CurrentRevision : {1}, Submitted : {<<1>>}]

\* The manifests of the builds are any of their kinds; a nil request comes
\* with one fixed world.
InitFindBuild ==
    /\ cancelled = FALSE
    /\ \/ /\ request = "req"
          /\ gerritMatches \in {<<>>} \cup {<<c>> : c \in FBChanges}
          /\ manifestOf \in {f \in [1..NBuilds -> UNION {ManifestKinds(b) : b \in 1..NBuilds}] :
                               \A b \in 1..NBuilds : f[b] \in ManifestKinds(b)}
       \/ /\ request = "nil"
          /\ gerritMatches = <<>>
          /\ manifestOf = [b \in 1..NBuilds |->
                           [available |-> TRUE, revision |-> 1, remote |-> "cos",
                            shape |-> "sound"]]
    /\ fbPc = "enter" /\ gerritQuery = [N |-> 0] /\ clRes = [err |-> NoErr]
    /\ buildNums = <<>> /\ running = {} /\ shaChan = <<>> /\ grI = 0
    /\ output = emptyRepoData /\ sourceOrder = 0 /\ targetOrder = 0
    /\ fbRet = [err |-> NoErr]
    /\ clParked
    /\ callIdle

NextFindBuild ==
    \/ FindBuildEnter
    \/ FindBuildGetCLData
    \/ getRepoDataSpawn
    \/ \E k \in 1..NBuilds : manifestDataTask(k)
    \/ getRepoDataWait
    \/ getRepoDataRecv
    \/ getRepoDataReturn
    \/ FindBuildResolve

SpecFindBuild == InitFindBuild /\ [][NextFindBuild]_vars

(***************************************************************************)
(* Properties of the change locator.                                       *)
(***************************************************************************)
Located == fbPc # "getCLData" /\ gerritQuery.N # 0

\* C9: the locator asks for at most 2 matches; when Gerrit answers, zero
\* matches give ErrorCLNotFound, more than one match gives ErrorIDNotUnique,
\* one match with an empty submission timestamp gives the not-submitted
\* error, and a change record is given only for exactly one submitted match.
C9_LocatorClassification ==
    (Located /\ clRes.err # ErrorRetrievingChange) =>
        /\ gerritQuery.N <= 2
        /\ Len(gerritMatches) = 0 => clRes.err = ErrorCLNotFound
        /\ Len(gerritMatches) > 1 => clRes.err = ErrorIDNotUnique
        /\ (Len(gerritMatches) = 1 /\ gerritMatches[1].Submitted = <<>>)
               => clRes.err = ErrorNotSubmitted
        /\ clRes.err = NoErr
               => (Len(gerritMatches) = 1 /\ gerritMatches[1].Submitted # <<>>)

\* Three changes match and the first of them is not submitted: the answer
\* is ErrorIDNotUnique, the earlier test.
C9_Witness ==
    /\ Located
    /\ Len(gerritMatches) = 3 /\ gerritMatches[1].Submitted = <<>>
    /\ clRes.err = ErrorIDNotUnique

\* The release the spec gives a change: the branch for a repository without
\* rule; for a repository with a rule, capture group 1 of the rule's regular
\* expression applied to the branch when the branch matches, the rule's
\* default release when it does not.
ExpectedRelease(project, branch) ==
    IF project \notin DOMAIN clReleaseMapping THEN branch
    ELSE LET matches == FindStringSubmatch(clReleaseMapping[project].releaseRe, branch)
         IN  IF matches # <<>> THEN matches[2]
             ELSE clReleaseMapping[project].defaultRelease

\* C10: the release of a located change is derived from its branch: the
\* branch itself without rule; with a rule, capture group 1 of the match on
\* the branch, and the default release only when the branch does not match.
C10_ReleaseFromBranch ==
    (Located /\ clRes.err = NoErr) =>
        clRes.Release = ExpectedRelease(gerritMatches[1].Project, clRes.Branch)

(***************************************************************************)
(* Properties of FindBuild.                                                *)
(***************************************************************************)
\* The changelog holds revision c of the change's repository or a descendant
\* of it at SHA sha.
Contains(sha, c) == c \in Reach(OtherProject[1], sha)

\* The SHAs that the manifests read by getRepoData pin for the change's
\* repository and branch; Candidates maps each to the earliest build that
\* pins it.
MatchedSHAs == DOMAIN output.Candidates

FoundBuild == fbPc = "done" /\ fbRet.err = NoErr

\* C7: a build number FindBuild returns is that of a build which pins the
\* change's revision or a descendant of it, and no earlier build of the
\* window pins such a SHA.
C7_EarliestContainingBuild ==
    FoundBuild =>
        /\ \E sha \in MatchedSHAs :
              /\ output.Candidates[sha] = fbRet.BuildNum
              /\ Contains(sha, clRes.Revision)
        /\ \A sha \in MatchedSHAs :
              Contains(sha, clRes.Revision)
                  => output.Candidates[sha][1] >= fbRet.BuildNum[1]

\* C8: when a build of the window pins the change's revision or a
\* descendant of it, FindBuild does not return ErrorCLNotLanded.
C8_LandedIsFound ==
    (/\ fbPc = "done"
     /\ clRes.err = NoErr
     /\ \E sha \in MatchedSHAs : Contains(sha, clRes.Revision))
        => fbRet.err # ErrorCLNotLanded

\* C32: FindBuild called with a nil request returns the error 'request is
\* nil' without a remote call: it does not crash.
C32_NilRequestError ==
    (request = "nil" /\ fbPc \notin {"parked", "enter"}) =>
        /\ fbPc = "done"
        /\ fbRet.err = [kind |-> "FindCL: request is nil"]
        /\ gerritQuery = [N |-> 0]

(***************************************************************************)
(* Properties of the Build-Mapper (getRepoData and its manifestData tasks).*)
(***************************************************************************)
\* The builds of the window, as build numbers 1..NBuilds.
WindowBuilds == {buildNums[k][1] : k \in 1..Len(buildNums)}

\* The manifest of build b can be read and has a project for the change's
\* repository and branch with a SHA and a remote URL.
Yields(b) ==
    /\ manifestOf[b].available
    /\ manifestOf[b].shape = "sound"
    /\ manifestOf[b].revision # 0

\* The URL that the manifest of build b resolves the repository to.
ResolvedURL(b) == IF manifestOf[b].remote = "cos" THEN <<"u1">> ELSE <<"u2">>

\* The Build-Mapper was given the change and has come to its end: it has
\* returned (to the resolver or with an error of its own) or the process
\* has died in it.
MapperOver ==
    /\ Located /\ clRes.err = NoErr
    /\ \/ fbPc = "resolve"
       \/ fbPc = "done" /\ buildNums # <<>>
       \/ fbPc = "panic"

RemoteURLChanged ==
    fbPc = "done" /\ fbRet.err.kind = "getRepoData: Remote URL for repository changed"

\* C11: the Build-Mapper fails with the remote-URL-changed error if and only
\* if two matched manifests of the window resolve the repository to
\* different URLs, whatever the order in which the results arrive.
C11_RemoteURLChangedIff ==
    MapperOver =>
        (RemoteURLChanged <=>
            \E a, b \in WindowBuilds :
                Yields(a) /\ Yields(b) /\ ResolvedURL(a) # ResolvedURL(b))

\* C12: the Build-Mapper fails with ErrorNoManifestBranchMatch exactly when
\* no manifest of the window yields a SHA and a remote URL, also when every
\* task reports an error and when the window holds no manifest.
C12_NoManifestBranchMatchIff ==
    MapperOver =>
        ((fbPc = "done" /\ fbRet.err = ErrorNoManifestBranchMatch) <=>
            ~ \E b \in WindowBuilds : Yields(b))

\* C18: a failure confined to one manifest of the window only causes that
\* manifest to be skipped: the request is not aborted by it, and the other
\* manifests are processed.
C18_ManifestFailureSkipped ==
    (MapperOver /\ \E b \in WindowBuilds : ~Yields(b)) =>
        /\ fbPc # "panic"
        /\ fbPc = "resolve" =>
              MatchedSHAs = {manifestOf[b].revision : b \in {w \in WindowBuilds : Yields(w)}}

\* The Build-Mapper has returned its repoData to FindBuild.
MapperSucceeded == fbPc = "resolve"

\* The builds of the window whose manifest is matched: it yields a SHA and
\* a remote URL.
MatchedBuilds == {b \in WindowBuilds : Yields(b)}

\* The oldest and the newest build of a set: build numbers grow with time.
Oldest(builds) == CHOOSE b \in builds : \A o \in builds : b <= o

Newest(builds) == CHOOSE b \in builds : \A o \in builds : b >= o

\* C24: after the Build-Mapper has succeeded, every key s of Candidates maps
\* to the oldest build among the matched manifests of the window that pin
\* s, in whatever order the responses of the tasks arrived.
C24_CandidatesEarliest ==
    MapperSucceeded =>
        \A s \in DOMAIN output.Candidates :
            LET pinning == {b \in MatchedBuilds : manifestOf[b].revision = s}
            IN  pinning # {} /\ output.Candidates[s] = <<Oldest(pinning)>>

\* Two matched manifests of the window pin the same SHA.
C24_Witness ==
    /\ MapperSucceeded
    /\ \E a, b \in MatchedBuilds :
          /\ a < b /\ manifestOf[a].revision = manifestOf[b].revision
          /\ output.Candidates[manifestOf[a].revision] = <<a>>

\* C25: after the Build-Mapper has succeeded, TargetSHA is the SHA pinned by
\* the newest matched manifest of the window and SourceSHA the SHA pinned by
\* the oldest, in whatever order the responses arrived; a skipped manifest
\* supplies neither.
C25_TargetAndSourceSHA ==
    MapperSucceeded =>
        /\ MatchedBuilds # {}
        /\ output.TargetSHA = manifestOf[Newest(MatchedBuilds)].revision
        /\ output.SourceSHA = manifestOf[Oldest(MatchedBuilds)].revision

\* A manifest of the window is skipped and the matched ones pin different
\* SHAs.
C25_Witness ==
    /\ MapperSucceeded
    /\ \E a, b \in MatchedBuilds : manifestOf[a].revision # manifestOf[b].revision
    /\ \E b \in WindowBuilds : ~Yields(b)
    /\ output.TargetSHA # output.SourceSHA

\* C33: when the release branch of the manifest repository has no commits,
\* the window is empty and nothing is indexed outside the list: FindBuild
\* does not crash, and unless a remote call fails it ends with
\* ErrorNoManifestBranchMatch.
C33_EmptyBranchNoMatch ==
    (/\ Located /\ clRes.err = NoErr
     /\ AllManifests(clRes.Release) = <<>>
     /\ fbPc # "getRepoData") =>
        /\ fbPc = "done"
        /\ fbRet.err \in {ErrorNoManifestBranchMatch,
                          [kind |-> "commits: transport"],
                          [kind |-> "tagMapping: Failed to retrieve tags"]}

(***************************************************************************)
(* findbuild.go: firstBuild() called on its own, on any commit list of the *)
(* repository, any revision and any Candidates map.                        *)
(***************************************************************************)
\* The sequences without repetition of at most n elements of S.
RECURSIVE DistinctSeqs(_, _)
DistinctSeqs(S, n) ==
    IF n = 0 THEN {<<>>}
    ELSE LET shorter == DistinctSeqs(S, n - 1)
         IN  shorter \cup UNION {{Append(q, x) : x \in S \ Range(q)} : q \in shorter}

\* The commit lists of the repository: no commit occurs twice in a log.
ResolverLogs ==
    {[k \in 1..Len(ids) |-> GitCommit(ids[k], TRUE)] :
        ids \in DistinctSeqs(Revisions, NRevisions)}

\* The Candidates maps: some SHAs of the repository, each with a build.
ResolverCandidates ==
    UNION {[keys -> {<<1>>, <<2>>}] : keys \in SUBSET Revisions}

InitResolver ==
    /\ cancelled = FALSE
    /\ call \in [fn : {"firstBuild"}, pc : {"call"}, changelog : ResolverLogs,
                 targetData : [Revision : Revisions], candidates : ResolverCandidates]
    /\ clParked /\ fbParked

\* Lines 405-423.
firstBuildCall ==
    /\ call.fn = "firstBuild" /\ call.pc = "call"
    /\ call' = [fn |-> "firstBuild", pc |-> "ret", changelog |-> call.changelog,
                targetData |-> call.targetData, candidates |-> call.candidates,
                ret |-> firstBuild(call.changelog, call.targetData, call.candidates)]
    /\ UNCHANGED <<clVars, fbVars, cancelled>>

NextResolver == firstBuildCall

SpecResolver == InitResolver /\ [][NextResolver]_vars

\* firstBuild has returned.
Resolver == call.fn = "firstBuild" /\ call.pc = "ret"

\* The indices (from 1) at which the change's revision occurs in the list.
RevisionAt == {i \in 1..Len(call.changelog) :
                  call.changelog[i].Id = call.targetData.Revision}

\* The indices (from 1) up to k of the commits that are keys of Candidates.
KeysUpTo(k) == {i \in 1..k : call.changelog[i].Id \in DOMAIN call.candidates}

\* C13: the Build-Resolver returns ErrorCLNotLanded when the revision is
\* not in the commit list, and when it is at index k but no commit from k
\* down to 0 is a key of Candidates; otherwise it returns the Candidates
\* entry of the first such commit met from k toward index 0.
C13_ResolverScan ==
    Resolver =>
        IF RevisionAt = {}
        THEN call.ret.err = ErrorCLNotLanded
        ELSE \A k \in RevisionAt :
               IF KeysUpTo(k) = {}
               THEN call.ret.err = ErrorCLNotLanded
               ELSE /\ call.ret.err = NoErr
                    /\ call.ret.BuildNum =
                         call.candidates[call.changelog[SetMax(KeysUpTo(k))].Id]

\* The revision is the third commit of the list, the second is no key, the
\* first and the fourth are keys with different builds: the build of the first.
C13_Witness ==
    /\ Resolver
    /\ Len(call.changelog) = 4 /\ RevisionAt = {3}
    /\ KeysUpTo(4) = {1, 4}
    /\ call.candidates[call.changelog[1].Id] # call.candidates[call.changelog[4].Id]
    /\ call.ret.err = NoErr
    /\ call.ret.BuildNum = call.candidates[call.changelog[1].Id]

InitFetch ==
    /\ cancelled = FALSE
    /\ call \in [fn : {"commits"}, pc : {"call"}, repo : Repos,
                 committish : 0..NCommits, ancestor : 0..NCommits, fault : Faults]
    /\ clParked /\ fbParked

\* Lines 158-215.
commitsCall ==
    /\ call.fn = "commits" /\ call.pc = "call"
    /\ call' = [fn |-> "commits", pc |-> "ret", repo |-> call.repo,
                committish |-> call.committish, ancestor |-> call.ancestor,
                fault |-> call.fault,
                requests |-> commitsFetch(call.repo, call.committish, call.ancestor,
                                          call.fault).sizes,
                ret |-> commits(call.repo, call.committish, call.ancestor, call.fault)]
    /\ UNCHANGED <<clVars, fbVars, cancelled>>

NextFetch == commitsCall

SpecFetch == InitFetch /\ [][NextFetch]_vars

\* commits() has sent its result.
Fetched == call.fn = "commits" /\ call.pc = "ret"

RECURSIVE Power(_, _)
Power(b, n) == IF n = 0 THEN 1 ELSE b * Power(b, n - 1)

\* C14: the page sizes requested for one repository are 1000, 5000, 10000,
\* 10000, ...: five times the previous size capped at 10000, and never
\* above 10000.
C14_PageSizes ==
    Fetched =>
        \A i \in 1..Len(call.requests) :
            /\ call.requests[i] = Min(1000 * Power(5, i - 1), 10000)
            /\ call.requests[i] <= 10000

\* The pages the endpoint gives when the continuation tokens are followed
\* from token on, whatever page size is asked.
RECURSIVE FollowTokens(_, _, _, _)
FollowTokens(repo, committish, ancestor, token) ==
    LET response == GitilesLog(repo, committish, ancestor, NCommits, token, FALSE)
    IN  IF response.NextPageToken = 0 THEN <<response.Log>>
        ELSE <<response.Log>> \o FollowTokens(repo, committish, ancestor,
                                              response.NextPageToken)

RECURSIVE Concat(_)
Concat(pages) == IF pages = <<>> THEN <<>> ELSE Head(pages) \o Concat(Tail(pages))

\* C15: for any number of pages the commit list of the fetcher is the
\* concatenation, in call order, of the pages obtained by following the
\* continuation tokens from the call without token, and so the list of a
\* single call of unlimited size: nothing dropped, duplicated or reordered.
C15_PagesConcatenated ==
    (Fetched /\ call.fault = "none") =>
        LET pages == FollowTokens(call.repo, call.committish, call.ancestor, 0)
            ids   == [k \in 1..Len(Concat(pages)) |-> Concat(pages)[k].Id]
        IN  /\ call.ret.Err = NoErr
            /\ SHAs(call.ret.Commits) = ids
            /\ SHAs(call.ret.Commits) = LogIds(call.repo, call.committish, call.ancestor)
            /\ Len(call.requests) = Len(pages)

\* A log of three pages.
C15_Witness ==
    /\ Fetched /\ call.fault = "none"
    /\ Len(call.requests) = 3
    /\ Len(call.ret.Commits) = 3
    /\ call.ret.Commits[1].SHA > call.ret.Commits[3].SHA

\* The number of Log requests that the log of the call takes.
RequestsNeeded ==
    Len(FollowTokens(call.repo, call.committish, call.ancestor, 0))

\* C16: when the request for a page fails, the first or a later one, the
\* fetcher reports only an error: the commits of the pages retrieved before
\* are not in the result.
C16_NoPartialLog ==
    (Fetched /\ (call.fault = "first" \/ (call.fault = "later" /\ RequestsNeeded > 1))) =>
        /\ call.ret.Err # NoErr
        /\ call.ret.Err.kind = "retrieve"
        /\ call.ret.Commits = <<>>
        /\ call.ret.RepoURL = ""

\* Of the three requests that the log takes, a later one fails after the
\* first page was retrieved.
C16_Witness ==
    /\ Fetched /\ call.fault = "later" /\ RequestsNeeded = 3
    /\ call.ret.Err # NoErr
    /\ call.ret.Commits = <<>>

(***************************************************************************)
(* findbuild.go: candidateManifestCommits() called on its own, on any      *)
(* newest-first commit list of the manifest repository and any submission  *)
(* time. Times are days.                                                   *)
(***************************************************************************)
\* Longest commit list of the manifest repository.
MaxManifests == 4
\* Latest commit or submission time.
MaxTime == 8

\* The lists of at most n commit times, none later than the one before it.
RECURSIVE TimeLists(_)
TimeLists(n) ==
    IF n = 0 THEN {<<>>}
    ELSE LET shorter == TimeLists(n - 1)
         IN  shorter \cup
             UNION {{Append(q, t) : t \in 0..(IF q = <<>> THEN MaxTime ELSE q[Len(q)])} :
                       q \in {x \in shorter : Len(x) = n - 1}}

\* The commit lists: at most one commit has no committer (missing = 0: none).
WindowLists ==
    UNION {{[k \in 1..Len(times) |->
               [Id        |-> ManifestSHA(Len(times) + 1 - k),
                Committer |-> k # missing,
                Time      |-> times[k]]] : missing \in 0..Len(times)} :
             times \in TimeLists(MaxManifests)}

InitWindow ==
    /\ cancelled = FALSE
    /\ call \in [fn : {"candidateManifestCommits"}, pc : {"call"},
                 allManifests : WindowLists, targetTime : 0..MaxTime]
    /\ clParked /\ fbParked

\* Lines 216-249.
candidateManifestCommitsCall ==
    /\ call.fn = "candidateManifestCommits" /\ call.pc = "call"
    /\ call' = [fn |-> "candidateManifestCommits", pc |-> "ret",
                allManifests |-> call.allManifests, targetTime |-> call.targetTime,
                ret |-> candidateManifestCommits(call.allManifests, call.targetTime)]
    /\ UNCHANGED <<clVars, fbVars, cancelled>>

NextWindow == candidateManifestCommitsCall

SpecWindow == InitWindow /\ [][NextWindow]_vars

\* candidateManifestCommits has returned a slice.
WindowReturned ==
    /\ call.fn = "candidateManifestCommits" /\ call.pc = "ret"
    /\ call.ret.outcome = "ok"

InInterval(commit) ==
    /\ commit.Time >= call.targetTime
    /\ commit.Time <= call.targetTime + 5

C27_WindowNeighboursOutside ==
    WindowReturned =>
        /\ call.ret.latestIdx > 0 =>
              At(call.allManifests, call.ret.latestIdx - 1).Time > call.targetTime + 5
        /\ call.ret.earliestIdx + 1 < Len(call.allManifests) =>
              At(call.allManifests, call.ret.earliestIdx + 1).Time < call.targetTime

\* The slice is the two middle commits of a list of four.
C27_Witness ==
    /\ WindowReturned
    /\ Len(call.allManifests) = 4
    /\ call.ret.latestIdx = 1 /\ call.ret.earliestIdx = 2
    /\ call.allManifests[1].Time > call.targetTime + 5
    /\ call.allManifests[4].Time < call.targetTime

\* C28: when a commit of the list has no committer, the selector fails with
\* an error, whatever the length of the list and whether or not a search
\* probes that commit.
C28_MissingCommitterFails ==
    (/\ call.fn = "candidateManifestCommits" /\ call.pc = "ret"
     /\ \E k \in 1..Len(call.allManifests) : ~call.allManifests[k].Committer)
        => call.ret.outcome = "error"

(***************************************************************************)
(* findbuild.go: candidateManifestCommits() called on its own, on commit   *)
(* lists whose times are in any order.                                     *)
(***************************************************************************)
\* Commit times in any order: the earliest day, a day in between and the
\* latest day.
AnyTimes == {0, endBuildTime - 2, MaxTime}

RECURSIVE AnyTimeLists(_)
AnyTimeLists(n) ==
    IF n = 0 THEN {<<>>}
    ELSE LET shorter == AnyTimeLists(n - 1)
         IN  shorter \cup {Append(q, t) : q \in shorter, t \in AnyTimes}

\* The commit lists: at most one commit has no committer (missing = 0: none).
AnyWindowLists ==
    UNION {{[k \in 1..Len(times) |->
               [Id        |-> ManifestSHA(Len(times) + 1 - k),
                Committer |-> k # missing,
                Time      |-> times[k]]] : missing \in 0..Len(times)} :
             times \in AnyTimeLists(MaxManifests)}

InitWindowAny ==
    /\ cancelled = FALSE
    /\ call \in [fn : {"candidateManifestCommits"}, pc : {"call"},
                 allManifests : AnyWindowLists, targetTime : 0..MaxTime]
    /\ clParked /\ fbParked

SpecWindowAny == InitWindowAny /\ [][NextWindow]_vars

\* C34: for a list of n > 0 commits whose probed commits all have a
\* committer, whatever the commit times and the submission time, the
\* searches end with 0 <= latestIdx <= earliestIdx <= n - 1, and the slice
\* returned is the commits from latestIdx to earliestIdx: not empty.
C34_WindowIndicesInRange ==
    (/\ call.fn = "candidateManifestCommits" /\ call.pc = "ret"
     /\ Len(call.allManifests) > 0
     /\ call.ret.outcome # "error") =>
        /\ call.ret.outcome = "ok"
        /\ 0 <= call.ret.latestIdx
        /\ call.ret.latestIdx <= call.ret.earliestIdx
        /\ call.ret.earliestIdx <= Len(call.allManifests) - 1
        /\ call.ret.commits # <<>>
        /\ call.ret.commits = SubSeq(call.allManifests, call.ret.latestIdx + 1,
                                     call.ret.earliestIdx + 1)

\* The times of the list are not in order: a late commit follows early
\* ones, and the slice is a proper part of the list.
C34_Witness ==
    /\ WindowReturned
    /\ \E k \in 1..(Len(call.allManifests) - 1) :
           call.allManifests[k].Time < call.allManifests[k + 1].Time
    /\ 0 < call.ret.latestIdx
    /\ call.ret.latestIdx < call.ret.earliestIdx
    /\ call.ret.earliestIdx < Len(call.allManifests) - 1

(***************************************************************************)
(* findbuild.go: the loop of candidateBuildNums() called on its own, on    *)
(* any window of manifest commits and any tags of the manifest repository. *)
(***************************************************************************)
\* Tag refs: two of the form refs/tags/<buildNum>, one of exactly 10
\* characters and a shorter one.
HarnessTagRefs ==
    {RefsTags \o <<1>>, RefsTags \o <<2>>, RefsTags, <<"r", "e", "f", "s">>}

\* RefsResponse.Revisions: some tag refs, each pointing to a manifest commit;
\* a commit may have no tag or several.
HarnessRevisions ==
    UNION {[refs -> {ManifestSHA(b) : b \in 1..NBuilds}] : refs \in SUBSET HarnessTagRefs}

\* The windows: manifest commits, none twice.
HarnessWindows ==
    {[k \in 1..Len(builds) |->
         [Id |-> ManifestSHA(builds[k]), Committer |-> TRUE, Time |-> ManifestTime(builds[k])]] :
       builds \in DistinctSeqs(1..NBuilds, NBuilds)}

InitTags ==
    /\ cancelled = FALSE
    /\ call \in [fn : {"candidateBuildNums"}, pc : {"call"},
                 manifestCommits : HarnessWindows, revisions : HarnessRevisions]
    /\ clParked /\ fbParked

\* Lines 279-297.
candidateBuildNumsCall ==
    /\ call.fn = "candidateBuildNums" /\ call.pc = "call"
    /\ \E tags \in gitTagsMaps(call.revisions) :
         call' = [fn |-> "candidateBuildNums", pc |-> "ret",
                  manifestCommits |-> call.manifestCommits, revisions |-> call.revisions,
                  ret |-> candidateBuildNumsOf(call.manifestCommits, tags)]
    /\ UNCHANGED <<clVars, fbVars, cancelled>>

NextTags == candidateBuildNumsCall

SpecTags == InitTags /\ [][NextTags]_vars

\* candidateBuildNums has returned.
TagsReturned == call.fn = "candidateBuildNums" /\ call.pc = "ret"

\* The tag refs that point to a commit.
TagRefsOf(sha) == {t \in DOMAIN call.revisions : call.revisions[t] = sha}

\* C29: candidateBuildNums fails when a commit of the window has no tag and
\* when the tag ref of a commit of the window has 10 characters or fewer;
\* otherwise it returns one build number per commit of the window, in the
\* order of the window, each the tag ref of its commit without the first 10
\* characters. (Of a commit with several tags, one of them is its tag ref.)
C29_BuildNumsFromTags ==
    TagsReturned =>
        LET window   == call.manifestCommits
            untagged == \E k \in 1..Len(window) : TagRefsOf(window[k].Id) = {}
            short    == \E k \in 1..Len(window) :
                            /\ TagRefsOf(window[k].Id) # {}
                            /\ \A t \in TagRefsOf(window[k].Id) : Len(t) <= 10
            sound    == \A k \in 1..Len(window) :
                            /\ TagRefsOf(window[k].Id) # {}
                            /\ \A t \in TagRefsOf(window[k].Id) : Len(t) > 10
        IN  /\ (untagged \/ short) => call.ret.err
            /\ sound => ~call.ret.err
            /\ ~call.ret.err =>
                  /\ Len(call.ret.buildNums) = Len(window)
                  /\ \A k \in 1..Len(window) :
                        \E t \in TagRefsOf(window[k].Id) :
                            /\ Len(t) > 10
                            /\ RefsTags \o call.ret.buildNums[k] = t

\* A window of two commits tagged for builds 2 and 1 in this order.
C29_Witness ==
    /\ TagsReturned /\ ~call.ret.err
    /\ Len(call.manifestCommits) = 2
    /\ call.ret.buildNums = << <<2>>, <<1>> >>
    /\ DOMAIN call.revisions = HarnessTagRefs

(***************************************************************************)
(* findbuild.go: manifestData() called on its own, on the downloaded       *)
(* manifest of a build, for a change of OtherProject on WorldBranch.       *)
(***************************************************************************)
\* Most project elements of the manifest of a task.
MaxTaskProjects == 2

\* targetData: the task reads Project and Branch.
TaskTarget == [Project |-> RepoPrefix \o OtherProject, Branch |-> WorldBranch]

\* Eleven characters that are not refs/heads/.
OtherPrefix == <<"r", "e", "f", "s", "/", "o", "t", "h", "e", "r", "/">>

\* dest-branch attributes: the change's branch and another branch with the
\* refs/heads/ prefix, refs/heads/ alone, and the change's branch behind
\* another prefix.
TaskDestBranches ==
    {RefsHeads \o WorldBranch, RefsHeads \o EmptyBranch, RefsHeads, OtherPrefix \o WorldBranch}

\* Project elements: those of the change's repository, with or without
\* dest-branch, with a revision or an empty one, with the default remote, a
\* named remote, or a remote that no remote element defines; and one of
\* another repository.
TaskProjects ==
    LET bare == {[name |-> RepoPrefix \o OtherProject, revision |-> c] : c \in {0, 1, 2}}
        dest == bare \cup {e @@ ("dest-branch" :> b) : e \in bare, b \in TaskDestBranches}
    IN  dest \cup {e @@ [remote |-> r] : e \in dest, r \in {"aux", "none"}}
             \cup {[name |-> RepoPrefix \o KernelProject, revision |-> 2]}

\* The sequences of at most n elements of S.
RECURSIVE SeqsUpTo(_, _)
SeqsUpTo(S, n) ==
    IF n = 0 THEN {<<>>}
    ELSE LET shorter == SeqsUpTo(S, n - 1)
         IN  shorter \cup {Append(q, x) : q \in shorter, x \in S}

TaskDocs ==
    [wellFormed : {TRUE}, hasRoot : {TRUE}, remote : {ManifestRemotes},
     default : {<< [remote |-> "cos"] >>, << EmptyMap >>},
     project : SeqsUpTo(TaskProjects, MaxTaskProjects)]

InitTask ==
    /\ cancelled = FALSE
    /\ call \in [fn : {"manifestData"}, pc : {"call"}, manifest : TaskDocs]
    /\ clParked /\ fbParked

\* Lines 301-347, after a download without error.
manifestDataCall ==
    /\ call.fn = "manifestData" /\ call.pc = "call"
    /\ call' = [fn |-> "manifestData", pc |-> "ret", manifest |-> call.manifest,
                ret |-> manifestData([err |-> FALSE, Contents |-> call.manifest],
                                     <<1>>, TaskTarget)]
    /\ UNCHANGED <<clVars, fbVars, cancelled>>

NextTask == manifestDataCall

SpecTask == InitTask /\ [][NextTask]_vars

\* The task has ended.
TaskOver == call.fn = "manifestData" /\ call.pc = "ret"

\* The task has sent a SHA and a remote URL.
TaskReported == TaskOver /\ ~call.ret.panic /\ call.ret.resp.Err = NoErr

\* The task has sent the not-found error.
TaskNotFound == TaskOver /\ ~call.ret.panic /\ call.ret.resp.Err.kind = "not found"

\* The project is that of the change's repository, and its dest-branch is
\* absent or refs/heads/ followed by the change's branch.
Satisfies(project) ==
    /\ "name" \in DOMAIN project /\ project["name"] = TaskTarget.Project
    /\ \/ "dest-branch" \notin DOMAIN project
       \/ project["dest-branch"] = RefsHeads \o TaskTarget.Branch

\* The URL the manifest resolves a project to: that of its remote, or of
\* the default remote; empty when there is none.
TaskURL(doc, project) ==
    LET name == IF "remote" \in DOMAIN project THEN project["remote"]
                ELSE IF "remote" \in DOMAIN doc.default[1] THEN doc.default[1]["remote"]
                ELSE "none"
        at   == {i \in 1..Len(doc.remote) : doc.remote[i]["name"] = name}
    IN  IF at = {} THEN <<>> ELSE Tail(doc.remote[CHOOSE i \in at : TRUE]["fetch"])

\* C30: a task reports a SHA and a remote URL only from a project of the
\* change's repository whose dest-branch is absent or, without refs/heads/,
\* the change's branch; it reports the not-found error exactly when no
\* project is such or the revision or the URL of the selected one is empty.
C30_TaskSelectsProject ==
    LET doc      == call.manifest
        matching == {k \in 1..Len(doc.project) : Satisfies(doc.project[k])}
    IN  /\ TaskReported =>
              \E k \in matching :
                  /\ call.ret.resp.SHA = doc.project[k]["revision"]
                  /\ call.ret.resp.RemoteURL = TaskURL(doc, doc.project[k])
        /\ TaskOver =>
              (TaskNotFound <=>
                  \/ matching = {}
                  \/ doc.project[SetMax(matching)]["revision"] = 0
                  \/ TaskURL(doc, doc.project[SetMax(matching)]) = <<>>)

(***************************************************************************)
(* changelog.go: repoMap() called on its own, on sound and on malformed    *)
(* manifest documents.                                                     *)
(***************************************************************************)
\* Most project elements of a manifest.
MaxProjects == 2

\* Fetch URLs: with a leading https://, without scheme, and with https://
\* further inside.
ParserFetches ==
    {<<"https://", "u1">>, <<"u2">>, <<"http://m/", "https://", "u3">>}

\* Project elements: with the default remote, with a named remote, without
\* revision, without name.
ParserProjects ==
    UNION {{[name |-> n, revision |-> 1],
            [name |-> n, revision |-> 2, remote |-> "aux"],
            [name |-> n, revision |-> 1, remote |-> "cos"],
            [name |-> n]} : n \in Repos}
        \cup {[revision |-> 1]}

\* The documents: text that is no XML, XML without manifest root, and
\* manifests with two remotes, with or without default element (and default
\* remote) and with any projects.
ParserDocs ==
    [wellFormed : {FALSE}, hasRoot : {FALSE}, remote : {<<>>}, default : {<<>>},
     project : {<<>>}]
        \cup [wellFormed : {TRUE}, hasRoot : {FALSE}, remote : {<<>>}, default : {<<>>},
              project : {<<>>}]
        \cup [wellFormed : {TRUE}, hasRoot : {TRUE},
              remote  : {<< [name |-> "cos", fetch |-> f], [name |-> "aux", fetch |-> g] >> :
                            f \in ParserFetches, g \in ParserFetches},
              default : {<<>>, << EmptyMap >>, << [remote |-> "cos"] >>,
                         << [remote |-> "aux"] >>},
              project : SeqsUpTo(ParserProjects, MaxProjects)]

InitParser ==
    /\ cancelled = FALSE
    /\ call \in [fn : {"repoMap"}, pc : {"call"}, manifest : ParserDocs]
    /\ clParked /\ fbParked

\* Lines 106-134.
repoMapCall ==
    /\ call.fn = "repoMap" /\ call.pc = "call"
    /\ call' = [fn |-> "repoMap", pc |-> "ret", manifest |-> call.manifest,
                ret |-> repoMap(call.manifest)]
    /\ UNCHANGED <<clVars, fbVars, cancelled>>

NextParser == repoMapCall

SpecParser == InitParser /\ [][NextParser]_vars

\* repoMap has ended.
Parsed == call.fn = "repoMap" /\ call.pc = "ret"

\* The document is XML but has no manifest root, no default element or
\* default remote, or a project without name or without revision.
Malformed(doc) ==
    /\ doc.wellFormed
    /\ \/ ~doc.hasRoot
       \/ doc.default = <<>>
       \/ "remote" \notin DOMAIN doc.default[1]
       \/ \E k \in 1..Len(doc.project) :
             "name" \notin DOMAIN doc.project[k] \/ "revision" \notin DOMAIN doc.project[k]

\* C19: for a document without manifest root, without default element or
\* default remote, or with a project without name or revision, the parser
\* returns an error value: it does not crash and returns no pin map.
C19_MalformedManifestError ==
    (Parsed /\ Malformed(call.manifest)) => call.ret.outcome = "error"

\* The fetch URL of the remote element named name.
FetchOf(doc, name) ==
    LET k == CHOOSE i \in 1..Len(doc.remote) : doc.remote[i]["name"] = name
    IN  doc.remote[k]["fetch"]

\* The remote a project resolves through.
RemoteOf(doc, project) ==
    IF "remote" \in DOMAIN project THEN project["remote"] ELSE doc.default[1]["remote"]

InitFanOut ==
    \/ InitChangelog
    \/ /\ InitFindBuild
       /\ \A b \in 1..NBuilds : manifestOf[b].revision <= 1 \/ manifestOf[b].remote = "aux"

NextFanOut == NextChangelog \/ NextFindBuild

SpecFanOut == InitFanOut /\ [][NextFanOut]_vars

\* C23: no task and no direction is ever blocked on sending its outcome:
\* while a commits task has its result to send, commitsChan has room; while
\* additions() has its result to send, its output channel has room; while a
\* manifestData task has its response to send, shaChan has room, also while
\* getRepoData waits for all tasks before it reads.
C23_SendersNeverBlock ==
    /\ \A d \in Dirs : pending[d] # {} => Len(commitsChan[d]) < commitsChanCap(d)
    /\ \A d \in Dirs : adPc[d] = "recv" => Len(outChan[d]) < outChanCap
    /\ running # {} => Len(shaChan) < shaChanCap

\* A task is still to send when nobody reads: in Changelog after additions()
\* has stopped reading at the first error, in the Build-Mapper while
\* getRepoData waits and the responses of all other tasks fill the channel.
C23_Witness ==
    \/ \E d \in Dirs :
          /\ adPc[d] = "done" /\ pending[d] # {}
          /\ Len(commitsChan[d]) = commitsChanCap(d) - 1 - Cardinality(pending[d])
    \/ /\ fbPc = "wait" /\ Cardinality(running) = 1
       /\ Len(shaChan) = shaChanCap - 1 /\ Len(shaChan) >= 2

====
